---------------------------- MODULE Spec2Model ----------------------------
(***************************************************************************)
(* Verification model of the agent orchestration subsystem of vpaura-be:   *)
(* the Structured-Query (Neo4j) agent graph, the intent router, the        *)
(* bounded-history policy of BaseAgent, the message reducer of the         *)
(* workflow state, session deletion and the LLM provider's ainvoke.        *)
(*                                                                         *)
(* Each subsystem has its own specification (SpecNeo4j, SpecRouter, ...)   *)
(* over its own variables; the variables of the other subsystems stay at   *)
(* their initial values.                                                   *)
(***************************************************************************)
EXTENDS Integers, Sequences, FiniteSets, TLC

VARIABLES
    \* ---- Structured-Query agent: one run of the graph of Neo4jAgent._build_graph
    node,            \* the node about to run ("START", "get_schema", ..., "END")
    st,              \* the graph state: a dict over the channels that were written
    max_retries,     \* Neo4jAgent.max_retries
    steps,           \* graph steps taken in this run (recursion_limit)
    genCount,        \* history: executions of _generate_node in this run
    validatorAlwaysInvalid, \* history: every validate_query answer was invalid
    evaluatorAlwaysRetry,   \* history: every evaluator answer was a RETRY answer
    attemptWriters,  \* history: nodes whose update changed the attempt counter
    respondOut,      \* the response _respond_node returned (empty text before)
    execResult,      \* what _execute_internal returned or raised (status "none" before)
    lastNode,        \* history: the node that ran last ("none" before the first)
    validatorOutcome, \* history: what the last validate_query call met ("none" before)
    generateOutcome, \* history: how the last generate ended ("none" before)
    \* ---- Intent router: one call of AgentRouter.route or ChatbotService.chat_stream
    rtPhase,         \* "idle", "detect", "dispatch", "done", "raised"
    rtMode,          \* "route" or "chat_stream"
    forced_type,     \* the agent_type argument of route (None when not given)
    confidence_threshold,
    detected,        \* what detect_intent returned: [type, confidence] (type None before)
    agent_type,      \* the local agent_type of route / agent_type_enum of chat_stream
    auto_routed,
    confidence,
    classifierCalls, \* history: calls of the classifier LLM made by detect_intent
    classifierAnswer, \* history: what the last classifier call answered or that it raised
    created,         \* the type AgentFactory.create was called with (None before)
    routing,         \* the routing metadata attached (agent_type None before)
    \* ---- Bounded history: one call of BaseAgent.truncate_history
    trPhase,         \* "call" before the call, "returned" after it
    history,         \* the history argument: a sequence of [role, content]
    include_system,  \* the include_system argument
    max_history,     \* BaseAgent.max_history
    max_tokens,      \* BaseAgent.max_tokens
    trimFails,       \* whether the smart trimming (trim_messages) raises
    truncated,       \* the list truncate_history returned
    \* ---- Workflow state of a chat thread: the messages channel and its reducer
    messages,        \* the messages channel: a sequence of [id, type, content]
    uuids,           \* history: ids handed out so far by the reducer
    lastUpdate,      \* the message objects of the last update (ids as the reducer left them)
    prevMessages,    \* history: the channel before the last merge
    mgPhase,         \* "fresh", "merged" (an update was merged), "remerged" (merged again)
    merges,          \* history: number of updates merged
    \* ---- Sessions and the checkpoint tables
    environment,       \* settings.ENVIRONMENT
    compileAccepts,    \* whether the graph library accepts compile(checkpointer=...) on
                       \* what _build_graph returns (else: AttributeError)
    sessionRows,       \* the ids in the sessions table
    nextSessionId,     \* the id the sessions table gives to the next session
    checkpointRows,    \* rows of the checkpoint tables: [table, thread_id, turn]
    turnCount,         \* history: number of chat turns so far
    deletedSessions,   \* history: the ids for which delete_session has returned
    \* ---- A language-model provider (BaseLLMProvider) and its ainvoke
    llm_environment,     \* self._environment
    llm_max_retries,     \* self.max_retries
    fallback_model,      \* self.fallback_model: None or a model name
    model,               \* self.model
    enable_guardrail,    \* whether the provider has a guardrail manager that is enabled
    llmPhase,            \* "idle", "loop" (inside ainvoke), "returned", "raised"
    llmAttempt,          \* the loop variable attempt of ainvoke
    inputRejected,       \* whether the guardrail finds the text of this call invalid
    modelCalls,          \* history: _ainvoke_internal calls of the current ainvoke
    llmOutcome,          \* what ainvoke returned or raised
    invocations,         \* history: number of ainvoke calls on the provider
    \* ---- Retrieval agent: one run of the graph of RAGAgent._build_graph
    ragNode,         \* the node about to run ("START", "think", ..., "END", "RAISED")
    ragSt,           \* the graph state: a dict over the channels that were written
    ragScores,       \* the scores (in tenths) of the documents the store finds
    ragRaisedTexts,  \* history: the texts of the exceptions the capabilities raised
    ragRespondOut,   \* what _respond_node returned (kind "none" before)
    \* ---- One agent object (BaseAgent) and the lifecycle of its graph
    agEnvironment,     \* settings.ENVIRONMENT
    agCompileAccepts,  \* whether compile(...) is accepted on what _build_graph returns
    agentObj,          \* [checkpointer, graph, raised]: self._checkpointer is set,
                       \* self.graph ("None", "plain", "checkpointed"), last build raised
    agPool,            \* self._connection_pool is set
    agBuilds,          \* history: number of graphs assigned to self.graph
    agCalls,           \* history: number of calls made on the agent
    agLast,            \* history: the last call, [op, built, poolFailed, outcome]
    \* ---- Message assembly: one call of execute_stream and of ChatAgent.execute
    asmSystemPrompt,   \* the system_prompt argument (None when not given)
    asmHistory,        \* the history argument: a sequence of [role, content]
    asmCalled,         \* history: which of the two entry points have assembled
    streamMessages,    \* state["messages"] execute_stream handed to the graph
    executeMessages,   \* state["messages"] ChatAgent.execute handed to the graph
    \* ---- Streaming: the loop of execute_stream over graph.astream
    srcEvents,         \* the events the graph stream emits, in order
    srcFailsAt,        \* the stream raises in place of event number srcFailsAt (0: never)
    consumed,          \* number of events taken from the stream so far
    yielded,           \* history: the chunks yielded to the consumer, in order
    strPhase,          \* "streaming", "completed", "raised"
    \* ---- Concurrent first executions on one agent object (asyncio tasks)
    plEnvironment,     \* settings.ENVIRONMENT
    plCompileAccepts,  \* whether compile(...) is accepted on what _build_graph returns
    plPool,            \* self._connection_pool: "None", "created" (open() not finished), "open"
    plPoolsCreated,    \* history: number of AsyncConnectionPool objects constructed
    plGraph,           \* self.graph is set
    plPc,              \* per task: where it is suspended ("start", "opening", "setup", ...)
    plAttached         \* history, per task: the state of the pool when it built its checkpointer

neoVars == <<node, st, max_retries, steps, genCount,
             validatorAlwaysInvalid, evaluatorAlwaysRetry, attemptWriters,
             respondOut, execResult, lastNode, validatorOutcome, generateOutcome>>

rtVars == <<rtPhase, rtMode, forced_type, confidence_threshold, detected, agent_type,
            auto_routed, confidence, classifierCalls, classifierAnswer, created,
            routing>>

trVars == <<trPhase, history, include_system, max_history, max_tokens, trimFails,
            truncated>>

mgVars == <<messages, uuids, lastUpdate, prevMessages, mgPhase, merges>>

ssVars == <<environment, compileAccepts, sessionRows, nextSessionId, checkpointRows,
           turnCount, deletedSessions>>

llmVars == <<llm_environment, llm_max_retries, fallback_model, model, enable_guardrail,
            llmPhase, llmAttempt, inputRejected, modelCalls, llmOutcome, invocations>>

agVars == <<agEnvironment, agCompileAccepts, agentObj, agPool, agBuilds, agCalls, agLast>>

ragVars == <<ragNode, ragSt, ragScores, ragRaisedTexts, ragRespondOut>>

asmVars == <<asmSystemPrompt, asmHistory, asmCalled, streamMessages, executeMessages>>

strVars == <<srcEvents, srcFailsAt, consumed, yielded, strPhase>>

poolVars == <<plEnvironment, plCompileAccepts, plPool, plPoolsCreated, plGraph, plPc,
              plAttached>>

\* Streaming chat turn of the chatbot service: the messages table, the
\* request, the position of the generator and what it has produced so far.
VARIABLES csMessages, csSessions, csRequest, csPc, csSession, csPrior, csFailedAt,
          csHistory, csHanded, csFull, csEmitted

csVars == <<csMessages, csSessions, csRequest, csPc, csSession, csPrior, csFailedAt,
            csHistory, csHanded, csFull, csEmitted>>

vars == <<neoVars, rtVars, trVars, mgVars, ssVars, llmVars, ragVars, agVars, asmVars, strVars, poolVars, csVars>>

\* The variables every action of the Structured-Query specification leaves alone.
NeoFrame == UNCHANGED <<rtVars, trVars, mgVars, ssVars, llmVars, ragVars, agVars, asmVars, strVars, poolVars, csVars>>

\* The variables every action of the router specification leaves alone.
RouterFrame == UNCHANGED <<neoVars, trVars, mgVars, ssVars, llmVars, ragVars, agVars, asmVars, strVars, poolVars, csVars>>

\* The variables every action of the bounded-history specification leaves alone.
TruncFrame == UNCHANGED <<neoVars, rtVars, mgVars, ssVars, llmVars, ragVars, agVars, asmVars, strVars, poolVars, csVars>>

\* The variables every action of the message-merge specification leaves alone.
MergeFrame == UNCHANGED <<neoVars, rtVars, trVars, ssVars, llmVars, ragVars, agVars, asmVars, strVars, poolVars, csVars>>

\* The variables every action of the session specification leaves alone.
SessionFrame == UNCHANGED <<neoVars, rtVars, trVars, mgVars, llmVars, ragVars, agVars, asmVars, strVars, poolVars, csVars>>

\* The variables every action of the provider specification leaves alone.
LLMFrame == UNCHANGED <<neoVars, rtVars, trVars, mgVars, ssVars, ragVars, agVars, asmVars, strVars, poolVars, csVars>>

\* The variables every action of the agent-lifecycle specification leaves alone.
AgentFrame == UNCHANGED <<neoVars, rtVars, trVars, mgVars, ssVars, llmVars, ragVars, asmVars, strVars, poolVars, csVars>>

\* The variables every action of the message-assembly specification leaves alone.
AsmFrame == UNCHANGED <<neoVars, rtVars, trVars, mgVars, ssVars, llmVars, ragVars, agVars, strVars, poolVars, csVars>>

\* No call assembled any message list.
AsmIdle ==
    /\ asmSystemPrompt = "<None>" /\ asmHistory = <<>> /\ asmCalled = {}
    /\ streamMessages = <<>> /\ executeMessages = <<>>

\* The variables every action of the streaming specification leaves alone.
StreamFrame == UNCHANGED <<neoVars, rtVars, trVars, mgVars, ssVars, llmVars, ragVars, agVars, asmVars, poolVars, csVars>>

\* A stream that emitted nothing and was never read.
StreamIdle ==
    /\ srcEvents = <<>> /\ srcFailsAt = 0 /\ consumed = 0 /\ yielded = <<>>
    /\ strPhase = "completed"

\* The variables every action of the streaming-chat specification leaves alone.
ChatStreamFrame == UNCHANGED <<neoVars, rtVars, trVars, mgVars, ssVars, llmVars, ragVars, agVars, asmVars, strVars, poolVars>>

\* A service on which no streaming turn was requested.
ChatStreamIdle ==
    /\ csMessages = <<>> /\ csSessions = {}
    /\ csRequest = [session_id |-> "<None>", history |-> <<>>, query |-> <<>>]
    /\ csPc = "ended" /\ csSession = 0 /\ csPrior = 0 /\ csFailedAt = "none"
    /\ csHistory = <<>> /\ csHanded = <<>> /\ csFull = <<>> /\ csEmitted = <<>>

\* The variables every action of the concurrent-build specification leaves alone.
PoolFrame == UNCHANGED <<neoVars, rtVars, trVars, mgVars, ssVars, llmVars, ragVars, agVars, asmVars, strVars, csVars>>

\* An agent object on which no task runs.
PoolIdle ==
    /\ plEnvironment = "development" /\ plCompileAccepts = FALSE
    /\ plPool = "None" /\ plPoolsCreated = 0 /\ plGraph = FALSE
    /\ plPc = <<>> /\ plAttached = <<>>

\* An agent object right after construction, never called.
AgentIdle ==
    /\ agEnvironment = "development" /\ agCompileAccepts = FALSE
    /\ agentObj = [checkpointer |-> FALSE, graph |-> "None", raised |-> FALSE]
    /\ agPool = FALSE /\ agBuilds = 0 /\ agCalls = 0
    /\ agLast = [op |-> "none", built |-> FALSE, poolFailed |-> FALSE, outcome |-> "none"]

\* The variables every action of the Retrieval specification leaves alone.
RagFrame == UNCHANGED <<neoVars, rtVars, trVars, mgVars, ssVars, llmVars, agVars, asmVars, strVars, poolVars, csVars>>

\* The Retrieval graph before any run.
RagIdle ==
    /\ ragNode = "START" /\ ragSt = [k \in {} |-> "<None>"] /\ ragScores = <<>>
    /\ ragRaisedTexts = {}
    /\ ragRespondOut = [kind |-> "none", body |-> <<>>,
                        footer |-> [kind |-> "none", used |-> 0, retrieved |-> 0]]

\* A provider on which ainvoke was never called.
LLMIdle ==
    /\ llm_environment = "development" /\ llm_max_retries = 3 /\ fallback_model = "<None>"
    /\ model = "primary" /\ enable_guardrail = TRUE /\ llmPhase = "idle" /\ llmAttempt = 0
    /\ inputRejected = FALSE /\ modelCalls = 0
    /\ llmOutcome = [kind |-> "<None>", value |-> "<None>"] /\ invocations = 0

\* No session and no checkpoint row.
SessionIdle ==
    /\ environment = "development" /\ compileAccepts = FALSE
    /\ sessionRows = {} /\ nextSessionId = 1 /\ checkpointRows = {}
    /\ turnCount = 0 /\ deletedSessions = {}

\* A thread with no message yet.
MergeIdle ==
    /\ messages = <<>> /\ uuids = 0 /\ lastUpdate = <<>> /\ prevMessages = <<>>
    /\ mgPhase = "fresh" /\ merges = 0

\* No truncate_history call.
TruncIdle ==
    /\ trPhase = "call" /\ history = <<>> /\ include_system = TRUE
    /\ max_history = 0 /\ max_tokens = 0 /\ trimFails = FALSE /\ truncated = <<>>

\* The router before any call.
RouterIdle ==
    /\ rtPhase = "idle" /\ rtMode = "route" /\ forced_type = "<None>"
    /\ confidence_threshold = 0 /\ agent_type = "<None>"
    /\ detected = [type |-> "<None>", confidence |-> 0]
    /\ auto_routed = FALSE /\ confidence = 0 /\ classifierCalls = 0
    /\ classifierAnswer = [raises |-> FALSE, words |-> <<>>]
    /\ created = "<None>"
    /\ routing = [agent_type |-> "<None>", auto_routed |-> FALSE, confidence |-> 0]

(***************************************************************************)
(* Python values.                                                          *)
(***************************************************************************)
None == "<None>"

\* dict.get(key, default)
Get(d, k, default) == IF k \in DOMAIN d THEN d[k] ELSE default

\* truthiness of an Optional[str]
TruthyStr(v) == v # None /\ v # ""

EmptyDict == [k \in {} |-> None]

(***************************************************************************)
(* Workflow state of the Structured-Query agent.                           *)
(***************************************************************************)
\* BaseAgentState: the channels every agent state has.
BaseAgentStateKeys == {"messages", "session_id", "metadata", "error"}

\* Neo4jAgentState(BaseAgentState): the channels of the Neo4j graph. The graph
\* is StateGraph(Neo4jAgentState): a key of a node's update (or of the input)
\* that is no channel of the schema is not stored, and a node sees only the
\* channels that were written.
Neo4jAgentStateKeys ==
    BaseAgentStateKeys \cup
    {"thinking", "plan", "schema", "cypher_query", "validation", "explain",
     "results", "attempts", "success", "skip_retry"}

\* The state after a node's update: every channel is last-value-wins (the
\* messages reducer plays no part in this graph: no node writes messages).
ApplyUpdate(s, upd) ==
    LET kept == DOMAIN upd \cap Neo4jAgentStateKeys
    IN  [k \in DOMAIN s \cup kept |-> IF k \in kept THEN upd[k] ELSE s[k]]

\* BaseAgent.execute: the state handed to graph.ainvoke.
ExecuteInput == [query |-> "Q", history |-> <<>>, metadata |-> "{}"]

RecursionLimit == 100

MaxRetriesBound == 3

\* Texts of the errors the nodes record.
KeyErrorQuery == "'query'"
AttributeErrorGet == "'str' object has no attribute 'get'"
RateLimitMsg == "API rate limit exceeded. Please wait a moment and try again."
SchemaFetchError == "schema fetch failed"
LLMError == "llm call failed"
LLMRateLimitError == "429 rate limit"

\* "rate limit" in error_msg.lower() or "429" in error_msg
IsRateLimitText(msg) == msg = LLMRateLimitError

(***************************************************************************)
(* Neo4jMCPClient.validate_query: the three answers it can give. It        *)
(* catches every failure of EXPLAIN itself.                                *)
(***************************************************************************)
ValidateOutcomes == {"plan", "empty_plan", "explain_raises"}

\* The texts str(e) of the exceptions the graph store can raise.
ExceptionTexts == {"connection refused", "invalid input near line 1"}

\* A formatted text is the sequence of its pieces: the literal parts of the
\* f-string and the values put into it.
validate_query(outcome, e) ==
    CASE outcome = "plan" ->
            [valid |-> TRUE, errors |-> <<>>, warnings |-> <<>>,
             plan_summary |-> "Validation passed (based on EXPLAIN plan)."]
      [] outcome = "empty_plan" ->
            [valid |-> FALSE, errors |-> << <<"Empty plan returned from EXPLAIN.">> >>,
             warnings |-> <<>>]
      [] OTHER ->
            [valid |-> FALSE, errors |-> << <<"EXPLAIN failed: ", e>> >>,
             warnings |-> <<>>]

(***************************************************************************)
(* The nodes: each returns the update dict the node's code returns.        *)
(***************************************************************************)
\* Neo4jAgent._get_schema_node
GetSchemaNode(s, schemaOut) ==
    IF schemaOut = "ok"
    THEN [schema |-> "SCHEMA", attempt |-> 0]
    ELSE [error |-> SchemaFetchError]

\* Neo4jAgent._analyze_node: state['query'] raises KeyError when the state has
\* no query; ThinkTool.execute is handed the prompt string and fails on
\* params.get, so the node records an error on every path.
AnalyzeNode(s) ==
    IF "query" \notin DOMAIN s
    THEN [error |-> KeyErrorQuery]
    ELSE [error |-> AttributeErrorGet]

\* A generate whose rate-limit branch records neither the error nor skip_retry.
GenerateNode_rateLimitUnflagged(s, llmOut) ==
    IF "query" \notin DOMAIN s
    THEN [cypher_query |-> "", attempt |-> Get(s, "attempt", 0) + 1, error |-> KeyErrorQuery]
    ELSE IF llmOut = "raise"
    THEN [cypher_query |-> "", attempt |-> Get(s, "attempt", 0) + 1, error |-> LLMError]
    ELSE IF llmOut = "rate_limit"
    THEN [cypher_query |-> "", attempt |-> Get(s, "attempt", 0) + 1]
    ELSE [cypher_query |-> "MATCH", attempt |-> Get(s, "attempt", 0) + 1]

\* Neo4jAgent._generate_node
GenerateNode(s, llmOut) ==
    LET attempt == Get(s, "attempt", 0) + 1
        failed(msg) ==
            IF IsRateLimitText(msg)
            THEN [cypher_query |-> "", attempt |-> Get(s, "attempt", 0) + 1,
                  error |-> RateLimitMsg, skip_retry |-> TRUE]
            ELSE [cypher_query |-> "", attempt |-> Get(s, "attempt", 0) + 1,
                  error |-> msg]
    IN  IF "query" \notin DOMAIN s THEN failed(KeyErrorQuery)
        ELSE IF llmOut = "raise" THEN failed(LLMError)
        ELSE IF llmOut = "rate_limit" THEN failed(LLMRateLimitError)
        ELSE [cypher_query |-> "MATCH", attempt |-> attempt]

\* How a generate run ended: state['query'] raised, the model call raised
\* (with or without a rate-limit text), or a query was generated.
GenerateOutcome(s, llmOut) == IF "query" \notin DOMAIN s THEN "key_error" ELSE llmOut

\* Neo4jAgent._validate_node
ValidateNode(s, outcome, e) ==
    LET validation == validate_query(outcome, e)
    IN  [validation |-> validation, validation_passed |-> Get(validation, "valid", FALSE)]

\* A retry edge that forgets the terminal conditions and the attempt bound.
should_retry_after_validation_unbounded(s) ==
    IF ~Get(Get(s, "validation", EmptyDict), "valid", FALSE) THEN "retry" ELSE "execute"

\* An edge after validate that looks at the validation before the error slot.
should_retry_after_validation_invalidFirst(s) ==
    LET validation == Get(s, "validation", EmptyDict)
        is_valid == Get(validation, "valid", FALSE)
        attempt == Get(s, "attempt", 0)
        skip_retry == Get(s, "skip_retry", FALSE)
        error == Get(s, "error", "")
    IN  IF ~is_valid /\ attempt < max_retries THEN "retry"
        ELSE IF skip_retry \/ TruthyStr(error) THEN "execute"
        ELSE "execute"

\* Neo4jAgent._should_retry_after_validation
should_retry_after_validation(s) ==
    LET validation == Get(s, "validation", EmptyDict)
        is_valid == Get(validation, "valid", FALSE)
        attempt == Get(s, "attempt", 0)
        skip_retry == Get(s, "skip_retry", FALSE)
        error == Get(s, "error", "")
    IN  IF skip_retry \/ TruthyStr(error) THEN "execute"
        ELSE IF ~is_valid /\ attempt < max_retries THEN "retry"
        ELSE "execute"

\* Neo4jAgent._execute_node
ExecuteNode(s, execOut, e) ==
    CASE execOut = "rows"    -> [results |-> <<"row">>, execution_error |-> None]
      [] execOut = "no_rows" -> [results |-> <<>>, execution_error |-> None]
      [] OTHER               -> [results |-> <<>>, execution_error |-> e]

\* Neo4jAgent._evaluate_node: the evaluator is asked through ThinkTool.execute
\* with the prompt string, which fails on params.get: the except branch
\* answers no-retry.
EvaluateNode(s) ==
    LET error == Get(s, "error", "")
        skip_retry == Get(s, "skip_retry", FALSE)
        validation == Get(s, "validation", EmptyDict)
        validation_errors == Get(validation, "errors", <<>>)
    IN  IF TruthyStr(error) \/ skip_retry
        THEN [should_retry |-> FALSE, evaluation |-> "SKIP: Error exists"]
        ELSE IF Len(validation_errors) > 0
        THEN [should_retry |-> TRUE, evaluation |-> "RETRY: Validation errors"]
        ELSE [should_retry |-> FALSE, evaluation |-> "ERROR"]

\* An edge after evaluate that always asks for another generation.
should_retry_after_evaluation_always(s) == "retry"

\* Neo4jAgent._should_retry_after_evaluation
should_retry_after_evaluation(s) ==
    LET should_retry == Get(s, "should_retry", FALSE)
        attempt == Get(s, "attempt", 0)
    IN  IF should_retry /\ attempt < max_retries THEN "retry" ELSE "respond"

\* The pieces of a list of formatted texts, in order.
RECURSIVE Flatten(_)
Flatten(texts) ==
    IF texts = <<>> THEN <<>> ELSE Head(texts) \o Flatten(Tail(texts))

ValidationFailedHead == "I apologize, but I couldn't generate a valid Cypher query."

ExecutionFailedHead == "I apologize, but I couldn't execute the query successfully."

SuccessHead == "Query executed successfully"

\* Neo4jAgent._respond_node: the response is the sequence of the pieces of
\* the text the node formats.
RespondNode(s) ==
    LET results == Get(s, "results", <<>>)
        execution_error == Get(s, "execution_error", None)
        validation == Get(s, "validation", EmptyDict)
        cypher_query == Get(s, "cypher_query", "")
        evaluation == Get(s, "evaluation", "")
        validation_errors == Get(validation, "errors", <<>>)
        validation_warnings == Get(validation, "warnings", <<>>)
    IN  IF Len(validation_errors) > 0
        THEN [response |-> <<ValidationFailedHead>> \o Flatten(validation_errors)
                           \o <<Get(validation, "suggestion", "Please rephrase your question"),
                                cypher_query>>,
              error |-> "Validation failed"]
        ELSE IF TruthyStr(execution_error) /\ Len(results) = 0
        THEN [response |-> <<ExecutionFailedHead, execution_error, evaluation, cypher_query>>
                           \o Flatten(validation_warnings),
              error |-> execution_error]
        ELSE [response |-> <<SuccessHead, cypher_query>> \o Flatten(validation_warnings)
                           \o results,
              error |-> None]

(***************************************************************************)
(* One run of the graph.                                                   *)
(***************************************************************************)
\* A graph step: the node's update is applied, the history is kept, and the
\* run moves to the next node unless the recursion limit is hit.
Step(name, upd, next) ==
    /\ st' = ApplyUpdate(st, upd)
    /\ steps' = steps + 1
    /\ node' = IF steps + 1 >= RecursionLimit /\ next # "END"
               THEN "GraphRecursionError" ELSE next
    /\ attemptWriters' =
          IF Get(ApplyUpdate(st, upd), "attempt", None) # Get(st, "attempt", None)
          THEN attemptWriters \cup {name} ELSE attemptWriters
    /\ lastNode' = name

NeoIdle ==
    /\ node = "START" /\ st = [k \in {} |-> "<None>"] /\ max_retries = 0 /\ steps = 0
    /\ genCount = 0 /\ validatorAlwaysInvalid = TRUE /\ evaluatorAlwaysRetry = TRUE
    /\ attemptWriters = {}
    /\ respondOut = <<>> /\ execResult = [status |-> "none", response |-> <<>>]
    /\ lastNode = "none" /\ validatorOutcome = "none" /\ generateOutcome = "none"

NeoInit ==
    /\ RouterIdle /\ TruncIdle /\ MergeIdle /\ SessionIdle /\ LLMIdle /\ RagIdle /\ AgentIdle /\ AsmIdle /\ StreamIdle /\ PoolIdle /\ ChatStreamIdle
    /\ node = "START"
    /\ st = EmptyDict
    /\ max_retries \in 0..MaxRetriesBound
    /\ steps = 0
    /\ genCount = 0
    /\ validatorAlwaysInvalid = TRUE
    /\ evaluatorAlwaysRetry = TRUE
    /\ attemptWriters = {}
    /\ respondOut = <<>>
    /\ execResult = [status |-> "none", response |-> <<>>]
    /\ lastNode = "none" /\ validatorOutcome = "none" /\ generateOutcome = "none"

\* graph.ainvoke(state, config): the input is written into the channels.
StartRun ==
    /\ node = "START"
    /\ st' = ApplyUpdate(EmptyDict, ExecuteInput)
    /\ node' = "get_schema"
    /\ UNCHANGED <<max_retries, steps, genCount, validatorAlwaysInvalid,
                   evaluatorAlwaysRetry, attemptWriters>>
    /\ UNCHANGED <<respondOut, execResult, lastNode, validatorOutcome, generateOutcome>>
    /\ NeoFrame

GetSchema ==
    /\ node = "get_schema"
    /\ \E schemaOut \in {"ok", "raise"} :
          Step("get_schema", GetSchemaNode(st, schemaOut), "analyze")
    /\ UNCHANGED <<max_retries, genCount, validatorAlwaysInvalid, evaluatorAlwaysRetry>>
    /\ UNCHANGED <<respondOut, execResult, validatorOutcome, generateOutcome>>
    /\ NeoFrame

Analyze ==
    /\ node = "analyze"
    /\ Step("analyze", AnalyzeNode(st), "generate")
    /\ UNCHANGED <<max_retries, genCount, validatorAlwaysInvalid, evaluatorAlwaysRetry>>
    /\ UNCHANGED <<respondOut, execResult, validatorOutcome, generateOutcome>>
    /\ NeoFrame

Generate ==
    /\ node = "generate"
    /\ \E llmOut \in {"ok", "raise", "rate_limit"} :
          /\ Step("generate", GenerateNode(st, llmOut), "validate")
          /\ generateOutcome' = GenerateOutcome(st, llmOut)
    /\ genCount' = genCount + 1
    /\ UNCHANGED <<max_retries, validatorAlwaysInvalid, evaluatorAlwaysRetry>>
    /\ UNCHANGED <<respondOut, execResult, validatorOutcome>>
    /\ NeoFrame

Validate ==
    /\ node = "validate"
    /\ \E outcome \in ValidateOutcomes, e \in ExceptionTexts :
          LET upd == ValidateNode(st, outcome, e)
              edge == should_retry_after_validation(ApplyUpdate(st, upd))
          IN  /\ Step("validate", upd, IF edge = "retry" THEN "generate" ELSE "execute")
              /\ validatorAlwaysInvalid' = (validatorAlwaysInvalid /\ outcome # "plan")
              /\ validatorOutcome' = outcome
    /\ UNCHANGED generateOutcome
    /\ UNCHANGED <<max_retries, genCount, evaluatorAlwaysRetry>>
    /\ UNCHANGED <<respondOut, execResult>>
    /\ NeoFrame

Execute ==
    /\ node = "execute"
    /\ \E execOut \in {"rows", "no_rows", "raise"}, e \in ExceptionTexts :
          Step("execute", ExecuteNode(st, execOut, e), "evaluate")
    /\ UNCHANGED <<max_retries, genCount, validatorAlwaysInvalid, evaluatorAlwaysRetry>>
    /\ UNCHANGED <<respondOut, execResult, validatorOutcome, generateOutcome>>
    /\ NeoFrame

Evaluate ==
    /\ node = "evaluate"
    /\ LET upd == EvaluateNode(st)
           edge == should_retry_after_evaluation(ApplyUpdate(st, upd))
       IN  Step("evaluate", upd, IF edge = "retry" THEN "generate" ELSE "respond")
    /\ UNCHANGED <<max_retries, genCount, validatorAlwaysInvalid, evaluatorAlwaysRetry>>
    /\ UNCHANGED <<respondOut, execResult, validatorOutcome, generateOutcome>>
    /\ NeoFrame

Respond ==
    /\ node = "respond"
    /\ Step("respond", RespondNode(st), "END")
    /\ respondOut' = RespondNode(st).response
    /\ UNCHANGED <<max_retries, genCount, validatorAlwaysInvalid, evaluatorAlwaysRetry,
                   execResult, validatorOutcome, generateOutcome>>
    /\ NeoFrame

\* BaseAgent._execute_internal after graph.ainvoke: the response field is the
\* content of the last message of the final state ("" without messages); a
\* failure of the graph is raised again.
ResponseText(result) ==
    LET msgs == Get(result, "messages", <<>>)
    IN  IF Len(msgs) > 0 THEN msgs[Len(msgs)].content ELSE <<>>

ExecuteReturn ==
    /\ node \in {"END", "GraphRecursionError"}
    /\ execResult' = IF node = "END"
                     THEN [status |-> "returned", response |-> ResponseText(st)]
                     ELSE [status |-> "raised", response |-> <<>>]
    /\ node' = "DONE"
    /\ UNCHANGED <<st, max_retries, steps, genCount, validatorAlwaysInvalid,
                   evaluatorAlwaysRetry, attemptWriters, respondOut,
                   lastNode, validatorOutcome, generateOutcome>>
    /\ NeoFrame

NeoNext ==
    \/ StartRun \/ GetSchema \/ Analyze \/ Generate
    \/ Validate \/ Execute \/ Evaluate \/ Respond \/ ExecuteReturn

SpecNeo4j == NeoInit /\ [][NeoNext]_vars

\* The graph runtime runs the next node as long as there is one, and
\* _execute_internal returns once the graph has ended.
SpecNeo4jLive == NeoInit /\ [][NeoNext]_vars /\ WF_vars(NeoNext)

(***************************************************************************)
(* The two conditional edges on their own: the graph stands before         *)
(* validate or before evaluate with any state a node may be handed, and    *)
(* runs that one node and the edge after it.                               *)
(***************************************************************************)
EdgeKeys == {"error", "skip_retry", "validation", "attempt"}

EdgeValues ==
    [error : {"", LLMError}, skip_retry : BOOLEAN,
     validation : {validate_query("plan", "connection refused"),
                   validate_query("empty_plan", "connection refused")},
     attempt : 0..MaxRetriesBound]

\* Every dict over some of the keys the edges read.
EdgeStates == {[k \in ks |-> vals[k]] : ks \in SUBSET EdgeKeys, vals \in EdgeValues}

EdgeInit ==
    /\ RouterIdle /\ TruncIdle /\ MergeIdle /\ SessionIdle /\ LLMIdle /\ RagIdle /\ AgentIdle /\ AsmIdle /\ StreamIdle /\ PoolIdle /\ ChatStreamIdle
    /\ node \in {"validate", "evaluate"}
    /\ st \in EdgeStates
    /\ max_retries \in 0..MaxRetriesBound
    /\ steps = 0
    /\ genCount = 0
    /\ validatorAlwaysInvalid = TRUE
    /\ evaluatorAlwaysRetry = TRUE
    /\ attemptWriters = {}
    /\ respondOut = <<>>
    /\ execResult = [status |-> "none", response |-> <<>>]
    /\ lastNode = "none" /\ validatorOutcome = "none" /\ generateOutcome = "none"

EdgeNext == Validate \/ Evaluate

SpecEdges == EdgeInit /\ [][EdgeNext]_vars

(***************************************************************************)
(* The run from generate on, for a state that holds the user's query and   *)
(* the schema and no error yet: the state generate is written for.         *)
(***************************************************************************)
FromGenerateInit ==
    /\ RouterIdle /\ TruncIdle /\ MergeIdle /\ SessionIdle /\ LLMIdle /\ RagIdle /\ AgentIdle /\ AsmIdle /\ StreamIdle /\ PoolIdle /\ ChatStreamIdle
    /\ node = "generate"
    /\ st \in {[query |-> "Q", schema |-> "SCHEMA"],
                [query |-> "Q", schema |-> "SCHEMA", thinking |-> "analysis"]}
    /\ max_retries \in 0..MaxRetriesBound
    /\ steps = 2
    /\ genCount = 0
    /\ validatorAlwaysInvalid = TRUE
    /\ evaluatorAlwaysRetry = TRUE
    /\ attemptWriters = {}
    /\ respondOut = <<>>
    /\ execResult = [status |-> "none", response |-> <<>>]
    /\ lastNode = "analyze" /\ validatorOutcome = "none" /\ generateOutcome = "none"

FromGenerateNext ==
    \/ Generate \/ Validate \/ Execute \/ Evaluate \/ Respond \/ ExecuteReturn

SpecFromGenerate == FromGenerateInit /\ [][FromGenerateNext]_vars

(***************************************************************************)
(* Claims about the Structured-Query run.                                  *)
(***************************************************************************)
NeoDone == node = "END"

\* C1 (as claimed): with max_retries = N >= 1, in a run where every validator
\* answer is "invalid" and every evaluator answer asks for a retry, generate
\* has run exactly N times when the run ends at respond.
C1_GenerateRunsMaxRetriesTimes ==
    (NeoDone /\ max_retries >= 1 /\ validatorAlwaysInvalid /\ evaluatorAlwaysRetry)
        => genCount = max_retries

\* C6 (as claimed): only get_schema and generate change the attempt counter,
\* and generate never runs more than max_retries times (0 and 1 included).
C6_GenerateBoundedByMaxRetries ==
    /\ attemptWriters \subseteq {"get_schema", "generate"}
    /\ genCount <= max_retries

\* C6 (amended): only get_schema and generate change the attempt counter, and
\* generate never runs more than max(1, max_retries) times: the fixed edge
\* analyze -> generate runs it once also when max_retries = 0.
C6_GenerateBoundedByMaxOfOneAndRetries ==
    /\ attemptWriters \subseteq {"get_schema", "generate"}
    /\ genCount <= (IF max_retries >= 1 THEN max_retries ELSE 1)

\* C6 witness: a finished run with max_retries = 0 in which generate ran, and
\* whose validator answered invalid (the case that would ask for a retry).
C6_Witness ==
    /\ NeoDone /\ max_retries = 0 /\ genCount = 1
    /\ Len(Get(Get(st, "validation", EmptyDict), "errors", <<>>)) > 0

\* C12: whatever capability calls fail, no exception leaves the graph (the
\* run never ends in an error of the graph and _execute_internal never
\* raises), the run eventually reaches respond and respond produces a
\* response; and when the validation still reports errors at the end (retries
\* exhausted included), that response is the validation-failure message with
\* the last generated query and the retained validation errors.
C12_RunAlwaysReachesRespond ==
    /\ <>(node = "DONE" /\ respondOut # <<>>)
    /\ [](node # "GraphRecursionError" /\ execResult.status # "raised")
    /\ []((node \in {"END", "DONE"}
            /\ Len(Get(Get(st, "validation", EmptyDict), "errors", <<>>)) > 0)
          => /\ respondOut[1] = ValidationFailedHead
             /\ respondOut[Len(respondOut)] = Get(st, "cypher_query", "")
             /\ SubSeq(respondOut, 2, Len(respondOut) - 2)
                    = Flatten(Get(st, "validation", EmptyDict).errors))

\* C12 witness: a run with max_retries = 1 that generated once, whose
\* validator failed on EXPLAIN and whose execution failed too, has ended with
\* the validation-failure response.
C12_Witness ==
    /\ node = "DONE" /\ max_retries = 1 /\ genCount = 1
    /\ respondOut[1] = ValidationFailedHead
    /\ \E e \in ExceptionTexts : \E i \in 1..Len(respondOut) : respondOut[i] = e
    /\ Get(st, "results", <<"row">>) = <<>>

\* C11 (as claimed): the response the respond step produced holds no text of
\* an exception a capability raised, so that runs which differ only in that
\* text have the same response.
C11_NoRawExceptionText ==
    node \in {"END", "DONE"} => \A i \in 1..Len(respondOut) : respondOut[i] \notin ExceptionTexts

\* C22: the edge taken after validate is execute when skip_retry is set or the
\* error slot is non-empty; otherwise generate when the validation is invalid
\* and attempt < max_retries; otherwise execute.
C22_ValidationEdge ==
    lastNode = "validate" =>
      LET stopped == Get(st, "skip_retry", FALSE) \/ Get(st, "error", "") \notin {"", None}
          invalid == ~st.validation.valid
      IN  node = (IF stopped THEN "execute"
                  ELSE IF invalid /\ Get(st, "attempt", 0) < max_retries THEN "generate"
                  ELSE "execute")

\* C22 witness: the validation was invalid with attempts left, and the error
\* slot was set: the edge went to execute.
C22_Witness ==
    /\ lastNode = "validate" /\ node = "execute"
    /\ ~st.validation.valid /\ Get(st, "attempt", 0) < max_retries
    /\ Get(st, "error", "") = LLMError /\ ~Get(st, "skip_retry", FALSE)

C25_ValidatorFailsOpen ==
    (lastNode = "validate" /\ validatorOutcome = "explain_raises")
    => /\ st.validation.valid
       /\ st.validation.errors = <<>>
       /\ Len(st.validation.warnings) > 0
       /\ node = "execute"

\* C20: on a successful execution the response field of the result is the
\* answer the agent's final step produced (the content of the last assistant
\* message of the final state).
C20_ResponseIsFinalAnswer ==
    execResult.status = "returned" =>
        /\ execResult.response # <<>>
        /\ execResult.response = respondOut

(***************************************************************************)
(* Intent router. Confidences and thresholds are floats in the code; the   *)
(* model counts them in tenths (0.6 is 6, 1.0 is 10) and keeps NaN apart:  *)
(* every comparison with NaN is false.                                     *)
(***************************************************************************)
\* class AgentType(str, Enum), in declaration order
AgentTypes == <<"neo4j", "rag", "chat">>

AgentTypeValues == {AgentTypes[i] : i \in 1..Len(AgentTypes)}

NaN == 999

FloatLess(a, b) == a # NaN /\ b # NaN /\ a < b

\* The words a classifier answer is made of, after strip().lower().split().
Words == {"neo4j", "rag", "chat", "0.4", "0.9", "1.5", "nan", "high", "neo4j:"}

MaxWords == 2

\* float(confidence_str) succeeds (no ValueError)
IsFloat(w) == w \in {"0.4", "0.9", "1.5", "nan"}

\* float(confidence_str): the value in tenths
ParseFloat(w) ==
    CASE w = "0.4" -> 4
      [] w = "0.9" -> 9
      [] w = "1.5" -> 15
      [] w = "nan" -> NaN

\* agent_type.value in intent_str, for an answer given as its words
Occurs(name, ws) ==
    \E i \in 1..Len(ws) : ws[i] = name \/ (name = "neo4j" /\ ws[i] = "neo4j:")

\* The classifier answers: a sequence of words, or a provider failure.
Answers == UNION {[1..n -> Words] : n \in 0..MaxWords}

ClassifierAnswers ==
    {[raises |-> FALSE, words |-> ws] : ws \in Answers}
        \cup {[raises |-> TRUE, words |-> <<>>]}

\* A detect_intent without the scan for an agent name (step b of the parsing).
detect_intent_noScan(answer) ==
    IF answer.raises THEN [type |-> "chat", confidence |-> 0]
    ELSE
      LET parts == answer.words
      IN  IF Len(parts) >= 2 /\ parts[1] \in AgentTypeValues /\ IsFloat(parts[2])
          THEN [type |-> parts[1], confidence |-> ParseFloat(parts[2])]
          ELSE [type |-> "chat", confidence |-> 3]

\* AgentRouter.detect_intent, from the classifier's answer to (type, confidence)
detect_intent(answer) ==
    IF answer.raises THEN [type |-> "chat", confidence |-> 0]
    ELSE
      LET parts == answer.words
          firstTwo ==
              Len(parts) >= 2 /\ parts[1] \in AgentTypeValues /\ IsFloat(parts[2])
          named == {i \in 1..Len(AgentTypes) : Occurs(AgentTypes[i], parts)}
      IN  IF firstTwo
          THEN [type |-> parts[1], confidence |-> ParseFloat(parts[2])]
          ELSE IF named # {}
          THEN [type |-> AgentTypes[CHOOSE i \in named : \A j \in named : i <= j],
                confidence |-> 5]
          ELSE [type |-> "chat", confidence |-> 3]

\* A route that classifies every input, given type or not.
NeedsDetection_always(given) == TRUE

\* AgentRouter.route: "if agent_type is None" (auto-detect only when no type is given)
NeedsDetection(given) == given = None

\* A confidence check that clears auto_routed but keeps the detected type.
RouteDecide_keepsDetected(detected_type, detected_confidence, threshold) ==
    IF FloatLess(detected_confidence, threshold)
    THEN [agent_type |-> detected_type, auto_routed |-> FALSE]
    ELSE [agent_type |-> detected_type, auto_routed |-> TRUE]

\* AgentRouter.route: the confidence check after detect_intent
RouteDecide(detected_type, detected_confidence, threshold) ==
    IF FloatLess(detected_confidence, threshold)
    THEN [agent_type |-> "chat", auto_routed |-> FALSE]
    ELSE [agent_type |-> detected_type, auto_routed |-> TRUE]

\* ChatbotService.chat_stream: the same check, written out again there
ChatStreamDecide(detected_type, detected_confidence, threshold) ==
    IF FloatLess(detected_confidence, threshold)
    THEN [agent_type |-> "chat", auto_routed |-> FALSE]
    ELSE [agent_type |-> detected_type, auto_routed |-> TRUE]

Thresholds == {0, 6, 10}

RouterInit == NeoIdle /\ RouterIdle /\ TruncIdle /\ MergeIdle /\ SessionIdle /\ LLMIdle /\ RagIdle /\ AgentIdle /\ AsmIdle /\ StreamIdle /\ PoolIdle /\ ChatStreamIdle

\* route(user_input, agent_type, config, confidence_threshold) is called
RouteCall ==
    /\ rtPhase = "idle"
    /\ \E given \in AgentTypeValues \cup {None}, threshold \in Thresholds :
          /\ forced_type' = given
          /\ confidence_threshold' = threshold
          /\ agent_type' = given
          /\ rtPhase' = IF NeedsDetection(given) THEN "detect" ELSE "dispatch"
    /\ rtMode' = "route"
    /\ auto_routed' = FALSE
    /\ confidence' = 10
    /\ UNCHANGED <<detected, classifierCalls, classifierAnswer, created, routing>>
    /\ RouterFrame

\* chat_stream(request, user_id, confidence_threshold) reaches its routing part
ChatStreamCall ==
    /\ rtPhase = "idle"
    /\ \E threshold \in Thresholds : confidence_threshold' = threshold
    /\ rtMode' = "chat_stream"
    /\ rtPhase' = "detect"
    /\ auto_routed' = FALSE
    /\ confidence' = 10
    /\ UNCHANGED <<forced_type, agent_type, detected, classifierCalls, classifierAnswer,
                   created, routing>>
    /\ RouterFrame

\* detect_intent answers, and the caller applies the confidence check
DetectIntent ==
    /\ rtPhase = "detect"
    /\ \E answer \in ClassifierAnswers :
          LET d == detect_intent(answer)
              decision == IF rtMode = "route"
                          THEN RouteDecide(d.type, d.confidence, confidence_threshold)
                          ELSE ChatStreamDecide(d.type, d.confidence, confidence_threshold)
          IN  /\ classifierAnswer' = answer
              /\ detected' = d
              /\ confidence' = d.confidence
              /\ agent_type' = decision.agent_type
              /\ auto_routed' = decision.auto_routed
    /\ classifierCalls' = classifierCalls + 1
    /\ rtPhase' = "dispatch"
    /\ UNCHANGED <<rtMode, forced_type, confidence_threshold, created, routing>>
    /\ RouterFrame

\* AgentFactory.create(agent_type) and the agent's execution: route attaches the
\* routing metadata to the result when the execution returns; chat_stream
\* hands it to execute_stream as the call's metadata.
Dispatch ==
    /\ rtPhase = "dispatch"
    /\ created' = agent_type
    /\ \E returns \in BOOLEAN :
          /\ rtPhase' = IF returns THEN "done" ELSE "raised"
          /\ routing' = IF returns \/ rtMode = "chat_stream"
                        THEN [agent_type |-> agent_type, auto_routed |-> auto_routed,
                              confidence |-> confidence]
                        ELSE routing
    /\ UNCHANGED <<rtMode, forced_type, confidence_threshold, detected, agent_type,
                   auto_routed, confidence, classifierCalls, classifierAnswer>>
    /\ RouterFrame

RouterNext == RouteCall \/ ChatStreamCall \/ DetectIntent \/ Dispatch

SpecRouter == RouterInit /\ [][RouterNext]_vars

\* C2: without a forced type, a detected confidence below the threshold sends
\* the call to the Chat agent with auto_routed = false and the detected
\* confidence kept, whatever type was detected; in route and in chat_stream.
C2_LowConfidenceRoutesToChat ==
    (forced_type = None /\ detected.type # None
        /\ FloatLess(detected.confidence, confidence_threshold))
    => /\ agent_type = "chat" /\ auto_routed = FALSE
       /\ confidence = detected.confidence
       /\ created \in {None, "chat"}
       /\ routing.agent_type # None =>
             routing = [agent_type |-> "chat", auto_routed |-> FALSE,
                        confidence |-> detected.confidence]
       /\ rtPhase \in {"done", "raised"} => created = "chat"

\* C2 witness: route detected neo4j at 0.4 under threshold 0.6 and ran Chat.
C2_Witness ==
    /\ rtMode = "route" /\ rtPhase = "done" /\ forced_type = None
    /\ detected = [type |-> "neo4j", confidence |-> 4] /\ confidence_threshold = 6
    /\ created = "chat" /\ routing.agent_type = "chat"

\* C3: route with an explicit agent type never calls detect_intent, creates
\* the agent of exactly that type, and reports confidence 1.0, auto_routed false.
C3_ForcedTypeBypassesDetection ==
    (rtMode = "route" /\ forced_type # None)
    => /\ classifierCalls = 0 /\ detected.type = None
       /\ agent_type = forced_type
       /\ created \in {None, forced_type}
       /\ rtPhase \in {"done", "raised"} => created = forced_type
       /\ rtPhase = "done" =>
             routing = [agent_type |-> forced_type, auto_routed |-> FALSE,
                        confidence |-> 10]

\* C3 witness: a forced neo4j call that ran to its end.
C3_Witness ==
    /\ rtMode = "route" /\ rtPhase = "done" /\ forced_type = "neo4j"
    /\ created = "neo4j" /\ routing.agent_type = "neo4j"

C16_ConfidenceInUnitInterval ==
    /\ classifierCalls > 0 => detected.confidence \in 0..10
    /\ routing.agent_type # None => routing.confidence \in 0..10

(***************************************************************************)
(* Bounded history: BaseAgent.truncate_history. A message is a dict        *)
(* [role, content]; a content is one of a few texts of known length.       *)
(***************************************************************************)
Roles == {"system", "user", "assistant"}

Texts == {"hi", "abcdefgh"}

\* len(content)
TextLen(c) == IF c = "hi" THEN 2 ELSE 8

Messages == [role : Roles, content : Texts]

MaxHistLen == 3

MaxHistoryBound == 2

MaxTokensBound == 2

Histories == UNION {[1..n -> Messages] : n \in 0..MaxHistLen}

\* The fallback estimator: len(content) // 4 per message, summed.
RECURSIVE EstimatedTokens(_)
EstimatedTokens(msgs) ==
    IF msgs = <<>> THEN 0
    ELSE (TextLen(Head(msgs).content) \div 4) + EstimatedTokens(Tail(msgs))

\* Python's seq[i:] for 0 <= i
SliceFrom(seq, i) == IF i >= Len(seq) THEN <<>> ELSE SubSeq(seq, i + 1, Len(seq))

\* Python's seq[-n:] for n >= 0: -0 is 0, so seq[-0:] is the whole sequence.
LastSlice(seq, n) ==
    IF n = 0 THEN seq
    ELSE IF n >= Len(seq) THEN seq
    ELSE SliceFrom(seq, Len(seq) - n)

\* trim_messages(strategy="last", start_on="human", include_system=...,
\* allow_partial=False): the system message first when asked for, then the
\* longest suffix of the rest within the remaining budget, cut at its front
\* so that it starts on a human message.
TrimMessages(msgs, budget, keepSystem) ==
    LET hasSystem == keepSystem /\ Len(msgs) > 0 /\ msgs[1].role = "system"
        rest == IF hasSystem THEN Tail(msgs) ELSE msgs
        sysTokens == IF hasSystem THEN EstimatedTokens(<<msgs[1]>>) ELSE 0
        remaining == IF budget - sysTokens > 0 THEN budget - sysTokens ELSE 0
        fits == {i \in 0..Len(rest) : EstimatedTokens(SliceFrom(rest, i)) <= remaining}
        from == CHOOSE i \in fits : \A j \in fits : i <= j
        humans == {i \in from..Len(rest) :
                      i = Len(rest) \/ rest[i + 1].role = "user"}
        start == CHOOSE i \in humans : \A j \in humans : i <= j
    IN  (IF hasSystem THEN <<msgs[1]>> ELSE <<>>) \o SliceFrom(rest, start)

\* The except branch of truncate_history: keep the last max_history * 2 messages.
FallbackTruncate(h, maxHistory) ==
    LET max_messages == maxHistory * 2
    IN  IF Len(h) > max_messages THEN LastSlice(h, max_messages) ELSE h

\* BaseAgent.truncate_history(history, include_system)
truncate_history(h, inclSystem, maxHistory, maxTokens, fails) ==
    IF h = <<>> THEN <<>>
    ELSE IF ~fails THEN TrimMessages(h, maxTokens, inclSystem)
    ELSE FallbackTruncate(h, maxHistory)

TruncInit ==
    /\ NeoIdle /\ RouterIdle /\ MergeIdle /\ SessionIdle /\ LLMIdle /\ RagIdle /\ AgentIdle /\ AsmIdle /\ StreamIdle /\ PoolIdle /\ ChatStreamIdle
    /\ trPhase = "call"
    /\ history \in Histories
    /\ include_system \in BOOLEAN
    /\ max_history \in 0..MaxHistoryBound
    /\ max_tokens \in 0..MaxTokensBound
    /\ trimFails \in BOOLEAN
    /\ truncated = <<>>

TruncateHistory ==
    /\ trPhase = "call"
    /\ truncated' = truncate_history(history, include_system, max_history, max_tokens,
                                     trimFails)
    /\ trPhase' = "returned"
    /\ UNCHANGED <<history, include_system, max_history, max_tokens, trimFails>>
    /\ TruncFrame

TruncNext == TruncateHistory

SpecTrunc == TruncInit /\ [][TruncNext]_vars

\* s is a subsequence of t, in t's order
RECURSIVE IsSubsequence(_, _)
IsSubsequence(s, t) ==
    IF s = <<>> THEN TRUE
    ELSE IF t = <<>> THEN FALSE
    ELSE IF Head(s) = Head(t) THEN IsSubsequence(Tail(s), Tail(t))
    ELSE IsSubsequence(s, Tail(t))

\* the last n messages of h (all of h when it has at most n)
LastMessages(h, n) == IF Len(h) <= n THEN h ELSE SubSeq(h, Len(h) - n + 1, Len(h))

\* C4 (as claimed): a history longer than max_history * 2 comes back with at
\* most max_history * 2 messages and at most max_tokens estimated tokens, on
\* the smart path and on the fallback path.
C4_TruncationBounded ==
    (trPhase = "returned" /\ Len(history) > max_history * 2)
    => /\ Len(truncated) <= max_history * 2
       /\ EstimatedTokens(truncated) <= max_tokens

\* C7 (as claimed): when smart trimming raises, the result is exactly the
\* last max_history * 2 messages of the history, in order.
C7_FallbackKeepsLastMessages ==
    (trPhase = "returned" /\ trimFails)
    => truncated = LastMessages(history, max_history * 2)

\* C8 (as claimed): the result is a subsequence of the history, and a leading
\* system message is kept when include_system is set and the budget admits
\* it (its tokens on the smart path, one message on the fallback path).
C8_OrderAndSystemKept ==
    trPhase = "returned"
    => /\ IsSubsequence(truncated, history)
       /\ (/\ Len(history) > 0 /\ history[1].role = "system" /\ include_system
           /\ IF trimFails THEN max_history * 2 >= 1
              ELSE EstimatedTokens(<<history[1]>>) <= max_tokens)
          => (Len(truncated) > 0 /\ truncated[1] = history[1])

(***************************************************************************)
(* The messages channel of BaseAgentState and its reducer add_messages.    *)
(* A message is [id, type, content]; an id is <<"given", n>> when the      *)
(* message came with one, <<"uuid", n>> when the reducer assigned it, and  *)
(* NoId before that.                                                       *)
(***************************************************************************)
NoId == <<>>

MaxMerges == 2

\* The messages a caller or a node can hand to the channel.
NewMessages ==
    [id : {NoId, <<"given", 1>>}, type : {"human", "ai"}, content : {"x", "y"}]

\* The updates: the message lists of one write to the channel.
Updates == [1..1 -> NewMessages] \cup [1..2 -> NewMessages]

\* add_messages, first part: every message without an id gets a fresh uuid,
\* written into the message object itself. n ids were handed out before.
RECURSIVE AssignIds(_, _)
AssignIds(msgs, n) ==
    IF msgs = <<>> THEN <<>>
    ELSE IF Head(msgs).id = NoId
         THEN <<[Head(msgs) EXCEPT !.id = <<"uuid", n + 1>>]>> \o AssignIds(Tail(msgs), n + 1)
         ELSE <<Head(msgs)>> \o AssignIds(Tail(msgs), n)

MissingIds(msgs) == Cardinality({i \in 1..Len(msgs) : msgs[i].id = NoId})

\* add_messages, second part: a message whose id is in the list replaces the
\* entry with that id in place; any other message is appended.
RECURSIVE MergeById(_, _)
MergeById(merged, right) ==
    IF right = <<>> THEN merged
    ELSE LET m == Head(right)
             same == {i \in 1..Len(merged) : merged[i].id = m.id}
         IN  IF same # {}
             THEN MergeById([merged EXCEPT ![CHOOSE i \in same : \A j \in same : j <= i] = m],
                            Tail(right))
             ELSE MergeById(Append(merged, m), Tail(right))

\* A reducer that only concatenates (operator.add).
add_messages_concat(left, right) == left \o right

\* messages: Annotated[list[BaseMessage], add_messages]; left and right have ids.
add_messages(left, right) == MergeById(left, right)

MergeInit == NeoIdle /\ RouterIdle /\ TruncIdle /\ MergeIdle /\ SessionIdle /\ LLMIdle /\ RagIdle /\ AgentIdle /\ AsmIdle /\ StreamIdle /\ PoolIdle /\ ChatStreamIdle

\* One write of `update` to the channel.
Write(update) ==
    LET right == AssignIds(update, uuids)
    IN  /\ messages' = add_messages(messages, right)
        /\ uuids' = uuids + MissingIds(update)
        /\ lastUpdate' = right
        /\ prevMessages' = messages

\* graph.ainvoke / astream with a messages list built by execute or
\* execute_stream: new message objects, merged into the thread's channel.
GraphInput ==
    /\ merges < MaxMerges
    /\ \E update \in Updates : Write(update)
    /\ mgPhase' = "merged"
    /\ merges' = merges + 1
    /\ MergeFrame

\* ChatAgent._chat_node returns {"messages": [response]}: the model's answer,
\* or the apology message built in the except branch (taken too when the
\* channel is empty).
ChatNode ==
    /\ merges < MaxMerges
    /\ \E response \in {m \in NewMessages : m.type = "ai"} : Write(<<response>>)
    /\ mgPhase' = "merged"
    /\ merges' = merges + 1
    /\ MergeFrame

\* The update that was just merged is merged again: the same message objects,
\* which carry the ids the reducer gave them.
MergeAgain ==
    /\ mgPhase = "merged"
    /\ Write(lastUpdate)
    /\ mgPhase' = "remerged"
    /\ UNCHANGED merges
    /\ MergeFrame

MergeNext == GraphInput \/ ChatNode \/ MergeAgain

SpecMerge == MergeInit /\ [][MergeNext]_vars

IdsOf(msgs) == [i \in 1..Len(msgs) |-> msgs[i].id]

RECURSIVE IsSubsequenceOf(_, _)
IsSubsequenceOf(s, t) ==
    IF s = <<>> THEN TRUE
    ELSE IF t = <<>> THEN FALSE
    ELSE IF Head(s) = Head(t) THEN IsSubsequenceOf(Tail(s), Tail(t))
    ELSE IsSubsequenceOf(s, Tail(t))

\* C5: merging an update a second time leaves the list as the first merge
\* left it, no id occurs twice in the list, and the messages that were in the
\* list before a merge are still there after it, in the same relative order.
C5_MergeIdempotent ==
    /\ mgPhase = "remerged" => messages = prevMessages
    /\ \A i, j \in 1..Len(messages) : messages[i].id = messages[j].id => i = j
    /\ IsSubsequenceOf(IdsOf(prevMessages), IdsOf(messages))

\* C5 witness: a list of at least two messages, merged again with an update
\* whose message got its id from the reducer.
C5_Witness ==
    /\ mgPhase = "remerged" /\ Len(messages) >= 2
    /\ \E i \in 1..Len(lastUpdate) : lastUpdate[i].id[1] = "uuid"

(***************************************************************************)
(* Sessions and their checkpoints: SessionService.delete_session,          *)
(* BaseAgent._build_graph_async and BaseAgent.clear_session_history.       *)
(***************************************************************************)
MaxSessions == 2

MaxTurns == 2

Environments == {"development", "test", "staging", "production"}

\* The tables clear_session_history deletes from.
CheckpointTables == {"checkpoints", "checkpoint_writes", "checkpoint_blobs"}

\* BaseAgent.__init__: a new agent has no checkpointer and no graph.
NewAgent == [checkpointer |-> FALSE, graph |-> "None", raised |-> FALSE]

\* BaseAgent._build_graph_async on an agent without graph. poolOk: the
\* connection pool opens. accepts: compile(checkpointer=...) is accepted.
BuildGraphAsync(agent, env, poolOk, accepts) ==
    IF ~poolOk /\ env # "production"
    THEN [agent EXCEPT !.raised = TRUE]
    ELSE IF accepts
         THEN [checkpointer |-> poolOk,
               graph |-> IF poolOk THEN "checkpointed" ELSE "plain",
               raised |-> FALSE]
         ELSE \* AttributeError; in production the except branch compiles again
              [checkpointer |-> poolOk, graph |-> "None", raised |-> TRUE]

\* The rows a checkpointed graph saves for one run on a thread.
SavedRows(thread, turn) ==
    {[table |-> t, thread_id |-> thread, turn |-> turn] : t \in CheckpointTables}

\* BaseAgent.clear_session_history(session_id). failing: the tables whose
\* DELETE raises.
clear_session_history(agent, rows, session_id, poolOk, failing) ==
    IF ~agent.checkpointer THEN rows
    ELSE IF ~poolOk THEN rows
    ELSE {r \in rows : ~(r.thread_id = session_id /\ r.table \notin failing)}

SessionInit ==
    /\ NeoIdle /\ RouterIdle /\ TruncIdle /\ MergeIdle /\ LLMIdle /\ RagIdle /\ AgentIdle /\ AsmIdle /\ StreamIdle /\ PoolIdle /\ ChatStreamIdle
    /\ environment \in Environments
    /\ compileAccepts \in BOOLEAN
    /\ sessionRows = {} /\ nextSessionId = 1 /\ checkpointRows = {}
    /\ turnCount = 0 /\ deletedSessions = {}

\* SessionService.create_session
CreateSession ==
    /\ nextSessionId <= MaxSessions
    /\ sessionRows' = sessionRows \cup {nextSessionId}
    /\ nextSessionId' = nextSessionId + 1
    /\ UNCHANGED <<environment, compileAccepts, checkpointRows, turnCount, deletedSessions>>
    /\ SessionFrame

\* One chat turn on a session: a new agent, execute_stream builds its graph
\* and runs it under thread_id = session id.
ChatTurn ==
    /\ turnCount < MaxTurns
    /\ \E session_id \in sessionRows, poolOk \in BOOLEAN :
          LET agent == BuildGraphAsync(NewAgent, environment, poolOk, compileAccepts)
          IN  checkpointRows' =
                  IF ~agent.raised /\ agent.graph = "checkpointed"
                  THEN checkpointRows \cup SavedRows(session_id, turnCount + 1)
                  ELSE checkpointRows
    /\ turnCount' = turnCount + 1
    /\ UNCHANGED <<environment, compileAccepts, sessionRows, nextSessionId, deletedSessions>>
    /\ SessionFrame

\* SessionService.delete_session(session_id): AgentFactory.create(CHAT),
\* clear_session_history on that agent, then repository.delete.
DeleteSession ==
    /\ \E session_id \in sessionRows, poolOk \in BOOLEAN, failing \in SUBSET CheckpointTables :
          /\ checkpointRows' = clear_session_history(NewAgent, checkpointRows, session_id,
                                                     poolOk, failing)
          /\ sessionRows' = sessionRows \ {session_id}
          /\ deletedSessions' = deletedSessions \cup {session_id}
    /\ UNCHANGED <<environment, compileAccepts, nextSessionId, turnCount>>
    /\ SessionFrame

SessionNext == CreateSession \/ ChatTurn \/ DeleteSession

SpecSession == SessionInit /\ [][SessionNext]_vars

\* C9: once delete_session(s) has returned, no checkpoint table holds a row
\* whose thread id is s.
C9_DeletePurgesCheckpoints ==
    \A s \in deletedSessions : \A r \in checkpointRows : r.thread_id # s

(***************************************************************************)
(* BaseLLMProvider.ainvoke: guardrails, retries, fallback model and the    *)
(* production apology.                                                     *)
(***************************************************************************)
MaxLLMRetries == 3

MaxInvocations == 2

InputBlocked == "ValueError: Input blocked by guardrail"

OutputBlocked == "ValueError: Output blocked by guardrail"

ModelError == "model call failed"

Apology == "I apologize, but I'm experiencing technical difficulties."

\* _validate_input: valid unless a guardrail manager is there and rejects.
ValidateInput(enabled, rejected) == ~(enabled /\ rejected)

\* _validate_output, likewise.
ValidateOutput(enabled, rejected) == ~(enabled /\ rejected)

\* The try block of one llmAttempt: the exception it raises (None: it returns
\* the response) and the number of _ainvoke_internal calls it makes.
TryAttempt(enabled, inRejected, modelOutcome, outRejected) ==
    IF ~ValidateInput(enabled, inRejected) THEN [exc |-> InputBlocked, calls |-> 0]
    ELSE IF modelOutcome = "raises" THEN [exc |-> ModelError, calls |-> 1]
    ELSE IF ~ValidateOutput(enabled, outRejected) THEN [exc |-> OutputBlocked, calls |-> 1]
    ELSE [exc |-> None, calls |-> 1]

\* A switch that is taken on every failed attempt, the last one included.
SwitchesToFallback_everyAttempt(env, fallback, att, maxRetries) ==
    env = "production" /\ fallback # None

\* A switch that does not look at the environment.
SwitchesToFallback_anyEnvironment(env, fallback, att, maxRetries) ==
    fallback # None /\ att = maxRetries - 2

\* The condition of the switch to the fallback model in the except block.
SwitchesToFallback(env, fallback, att, maxRetries) ==
    env = "production" /\ fallback # None /\ att = maxRetries - 2

LLMInit ==
    /\ NeoIdle /\ RouterIdle /\ TruncIdle /\ MergeIdle /\ SessionIdle /\ RagIdle /\ AgentIdle /\ AsmIdle /\ StreamIdle /\ PoolIdle /\ ChatStreamIdle
    /\ llm_environment \in Environments
    /\ llm_max_retries \in 0..MaxLLMRetries
    /\ fallback_model \in {None, "fallback"}
    /\ model = "primary"
    /\ enable_guardrail \in BOOLEAN
    /\ llmPhase = "idle" /\ llmAttempt = 0 /\ inputRejected = FALSE /\ modelCalls = 0
    /\ llmOutcome = [kind |-> "<None>", value |-> "<None>"] /\ invocations = 0

\* A caller enters ainvoke(messages).
AinvokeCall ==
    /\ llmPhase \in {"idle", "returned", "raised"}
    /\ invocations < MaxInvocations
    /\ inputRejected' \in BOOLEAN
    /\ llmPhase' = "loop" /\ llmAttempt' = 0 /\ modelCalls' = 0
    /\ llmOutcome' = [kind |-> "<None>", value |-> "<None>"]
    /\ invocations' = invocations + 1
    /\ UNCHANGED <<llm_environment, llm_max_retries, fallback_model, model, enable_guardrail>>
    /\ LLMFrame

\* One iteration of "for attempt in range(self.max_retries)".
AinvokeAttempt ==
    /\ llmPhase = "loop"
    /\ llmAttempt < llm_max_retries
    /\ \E modelOutcome \in {"ok", "raises"}, outRejected \in BOOLEAN :
          LET try == TryAttempt(enable_guardrail, inputRejected, modelOutcome, outRejected)
          IN  /\ modelCalls' = modelCalls + try.calls
              /\ IF try.exc = None
                 THEN /\ llmPhase' = "returned"
                      /\ llmOutcome' = [kind |-> "return", value |-> "response"]
                      /\ UNCHANGED <<model, llmAttempt>>
                 ELSE IF SwitchesToFallback(llm_environment, fallback_model, llmAttempt,
                                            llm_max_retries)
                 THEN /\ model' = fallback_model
                      /\ llmAttempt' = llmAttempt + 1
                      /\ UNCHANGED <<llmPhase, llmOutcome>>
                 ELSE IF llmAttempt = llm_max_retries - 1
                 THEN /\ IF llm_environment = "production"
                         THEN /\ llmPhase' = "returned"
                              /\ llmOutcome' = [kind |-> "return", value |-> Apology]
                         ELSE /\ llmPhase' = "raised"
                              /\ llmOutcome' = [kind |-> "raise", value |-> try.exc]
                      /\ UNCHANGED <<model, llmAttempt>>
                 ELSE /\ llmAttempt' = llmAttempt + 1
                      /\ UNCHANGED <<model, llmPhase, llmOutcome>>
    /\ UNCHANGED <<llm_environment, llm_max_retries, fallback_model, enable_guardrail,
                   inputRejected, invocations>>
    /\ LLMFrame

\* The loop ended without return or raise: RuntimeError("Failed after ...").
AinvokeExhausted ==
    /\ llmPhase = "loop"
    /\ llmAttempt >= llm_max_retries
    /\ llmPhase' = "raised"
    /\ llmOutcome' = [kind |-> "raise", value |-> "RuntimeError: Failed after attempts"]
    /\ UNCHANGED <<llm_environment, llm_max_retries, fallback_model, model, enable_guardrail,
                   llmAttempt, inputRejected, modelCalls, invocations>>
    /\ LLMFrame

LLMNext == AinvokeCall \/ AinvokeAttempt \/ AinvokeExhausted

SpecLLM == LLMInit /\ [][LLMNext]_vars

\* C10: when the input guardrail rejects the text of a call, ainvoke ends
\* without any call to the model and by raising the guardrail error, in every
\* environment and for every max_retries.
C10_GuardrailRejectionIsExplicit ==
    (llmPhase \in {"returned", "raised"} /\ enable_guardrail /\ inputRejected)
    => /\ modelCalls = 0
       /\ llmOutcome = [kind |-> "raise", value |-> InputBlocked]

\* The for loop of ainvoke goes on by itself: an iteration that is due runs,
\* and so does the statement after the loop.
SpecLLMLive ==
    LLMInit /\ [][LLMNext]_vars /\ WF_vars(AinvokeAttempt) /\ WF_vars(AinvokeExhausted)

\* What C26 says about a call at every moment: at most max_retries model calls;
\* a call that ended after max_retries failed attempts raised the last error
\* outside production and returned the apology in production; any other
\* ended call returned the model's response.
C26_CallBounded ==
    /\ modelCalls <= llm_max_retries
    /\ llmPhase \in {"returned", "raised"} =>
          \/ llmOutcome = [kind |-> "return", value |-> "response"]
          \/ /\ llm_environment = "production"
             /\ llmOutcome = [kind |-> "return", value |-> Apology]
          \/ /\ llm_environment # "production"
             /\ llmOutcome.kind = "raise"
             /\ llmOutcome.value \in {InputBlocked, OutputBlocked, ModelError}

\* C26 (as claimed): ainvoke always terminates, makes at most max_retries
\* calls to the model, returns the first valid response, and after
\* max_retries failed attempts raises the last error outside production and
\* returns the apology in production, for every max_retries.
C26_AinvokeTerminatesBounded ==
    /\ []C26_CallBounded
    /\ (llmPhase = "loop") ~> (llmPhase \in {"returned", "raised"})

\* C26 (amended): the same for max_retries >= 1; with max_retries = 0 the loop
\* body never runs: no model call is made and ainvoke raises RuntimeError in
\* every environment, production included.
C26_AinvokeTerminatesBoundedFromOne ==
    /\ [](llm_max_retries >= 1 => C26_CallBounded)
    /\ []((llm_max_retries = 0 /\ llmPhase \in {"returned", "raised"})
            => (modelCalls = 0 /\ llmOutcome.kind = "raise"
                /\ llmOutcome.value \notin {InputBlocked, OutputBlocked, ModelError}))
    /\ (llmPhase = "loop") ~> (llmPhase \in {"returned", "raised"})

\* C26 witness: in production, three attempts out of three called the model
\* and failed, and the call returned the apology.
C26_Witness ==
    /\ llm_environment = "production" /\ llm_max_retries = 3 /\ modelCalls = 3
    /\ llmPhase = "returned" /\ llmOutcome = [kind |-> "return", value |-> Apology]

\* C27: a step of ainvoke changes the provider's model only in production with
\* a fallback model configured, only on the failed attempt numbered
\* max_retries - 1, and only to the fallback model; a provider that is on the
\* fallback model stays on it through every later call.
C27_ModelChangesOnlyByFallback ==
    [][/\ model' # model =>
            /\ llm_environment = "production" /\ fallback_model # None
            /\ llmPhase = "loop" /\ llmAttempt + 1 = llm_max_retries - 1
            /\ llmAttempt' = llmAttempt + 1
            /\ model' = fallback_model
       /\ model = "fallback" => model' = "fallback"]_vars

\* C27 witness: a second call has ended on a provider that the first call had
\* switched to the fallback model.
C27_Witness ==
    /\ invocations = 2 /\ llmPhase = "returned" /\ model = "fallback"
    /\ llmOutcome = [kind |-> "return", value |-> "response"] /\ llmAttempt = 0

(***************************************************************************)
(* Retrieval agent: the graph think -> plan -> retrieve -> rerank ->       *)
(* generate -> respond of RAGAgent. Scores are floats in the code; the     *)
(* model counts them in tenths (0.7 is 7).                                 *)
(***************************************************************************)
\* RAGAgentState(BaseAgentState): the channels of the Retrieval graph.
RAGAgentStateKeys ==
    BaseAgentStateKeys \cup
    {"thinking", "plan", "retrieved_docs", "reranked_docs", "answer",
     "context_used", "retrieval_count", "metadata_filter"}

RagApplyUpdate(s, upd) ==
    LET kept == DOMAIN upd \cap RAGAgentStateKeys
    IN  [k \in DOMAIN s \cup kept |-> IF k \in kept THEN upd[k] ELSE s[k]]

MaxDocs == 4

\* similarity_search_with_score returns its results sorted by score, best first.
ScoreLists ==
    {ss \in UNION {[1..n -> {5, 7, 9}] : n \in 0..MaxDocs} :
        \A i \in 1..Len(ss) - 1 : ss[i] >= ss[i + 1]}

\* score_threshold = 0.7
ScoreThreshold == 7

\* reranked_docs[:3]
ContextDocs == 3

\* The texts str(e) of the exceptions retrieval and generation can raise.
RagExceptionTexts == {"vector store timeout", "index not found"}

\* RAGAgent._think_node: ThinkTool.execute is handed the prompt string and
\* fails on params.get.
RagThinkNode(s) == [error |-> AttributeErrorGet]

\* RAGAgent._plan_node: PlanTool.execute fails the same way.
RagPlanNode(s) == [error |-> AttributeErrorGet]

\* RAGAgent._retrieve_node
RagRetrieveNode(s, scores, e) ==
    IF e = None
    THEN [retrieved_docs |-> scores, retrieval_count |-> Len(scores)]
    ELSE [error |-> e]

\* RAGAgent._rerank_node
RagRerankNode(s) ==
    LET documents == Get(s, "retrieved_docs", <<>>)
    IN  [reranked_docs |-> SelectSeq(documents, LAMBDA score : score >= ScoreThreshold)]

\* RAGAgent._generate_node: the answer is the message object llm.ainvoke returns.
RagGenerateNode(s, e) ==
    LET reranked_docs == Get(s, "reranked_docs", <<>>)
        context_parts == SubSeq(reranked_docs, 1,
                                IF Len(reranked_docs) < ContextDocs
                                THEN Len(reranked_docs) ELSE ContextDocs)
    IN  IF e = None
        THEN [answer |-> [type |-> "AIMessage", content |-> "ANSWER"],
              context_used |-> Len(context_parts)]
        ELSE [error |-> e]

NoFooter == [kind |-> "none", used |-> 0, retrieved |-> 0]

\* RAGAgent._respond_node. The response is its body (the pieces of the text
\* before the footer) and its footer. "".join raises TypeError when the
\* answer is no str.
RagRespondNode(s) ==
    LET error == Get(s, "error", None)
        answer == Get(s, "answer", [type |-> "str", content |-> "I couldn't generate an answer."])
        context_used == Get(s, "context_used", 0)
        retrieval_count == Get(s, "retrieval_count", 0)
    IN  IF TruthyStr(error)
        THEN [kind |-> "returned",
              body |-> <<"I apologize, but I encountered an error: ", error>>,
              footer |-> NoFooter]
        ELSE IF answer.type # "str"
        THEN [kind |-> "raised", body |-> <<"TypeError">>, footer |-> NoFooter]
        ELSE [kind |-> "returned",
              body |-> <<answer.content>>,
              footer |-> IF context_used > 0
                         THEN [kind |-> "provenance", used |-> context_used,
                               retrieved |-> retrieval_count]
                         ELSE [kind |-> "no_documents", used |-> 0, retrieved |-> 0]]

RagInit ==
    /\ NeoIdle /\ RouterIdle /\ TruncIdle /\ MergeIdle /\ SessionIdle /\ LLMIdle /\ AgentIdle /\ AsmIdle /\ StreamIdle /\ PoolIdle /\ ChatStreamIdle
    /\ ragNode = "START" /\ ragSt = EmptyDict
    /\ ragScores \in ScoreLists
    /\ ragRaisedTexts = {}
    /\ ragRespondOut = [kind |-> "none", body |-> <<>>, footer |-> NoFooter]

RagStep(upd, next) ==
    /\ ragSt' = RagApplyUpdate(ragSt, upd)
    /\ ragNode' = next
    /\ ragRaisedTexts' = IF "error" \in DOMAIN upd
                         THEN ragRaisedTexts \cup {upd.error} ELSE ragRaisedTexts
    /\ UNCHANGED <<ragScores, ragRespondOut>>

\* graph.ainvoke / astream: the input is written into the channels. execute
\* hands over query, history and metadata; execute_stream hands over messages.
RagStartRun ==
    /\ ragNode = "START"
    /\ \E input \in {ExecuteInput, [messages |-> <<"Q">>, session_id |-> "1", metadata |-> "{}"]} :
          ragSt' = RagApplyUpdate(EmptyDict, input)
    /\ ragNode' = "think"
    /\ UNCHANGED <<ragScores, ragRaisedTexts, ragRespondOut>>
    /\ RagFrame

RagThink == ragNode = "think" /\ RagStep(RagThinkNode(ragSt), "plan") /\ RagFrame

RagPlan == ragNode = "plan" /\ RagStep(RagPlanNode(ragSt), "retrieve") /\ RagFrame

RagRetrieve ==
    /\ ragNode = "retrieve"
    /\ \E e \in RagExceptionTexts \cup {None} :
          RagStep(RagRetrieveNode(ragSt, ragScores, e), "rerank")
    /\ RagFrame

RagRerank == ragNode = "rerank" /\ RagStep(RagRerankNode(ragSt), "generate") /\ RagFrame

RagGenerate ==
    /\ ragNode = "generate"
    /\ \E e \in RagExceptionTexts \cup {None} :
          RagStep(RagGenerateNode(ragSt, e), "respond")
    /\ RagFrame

RagRespond ==
    /\ ragNode = "respond"
    /\ ragRespondOut' = RagRespondNode(ragSt)
    /\ ragNode' = IF RagRespondNode(ragSt).kind = "raised" THEN "RAISED" ELSE "END"
    /\ ragSt' = IF RagRespondNode(ragSt).kind = "raised" THEN ragSt
                ELSE RagApplyUpdate(ragSt, [error |-> Get(ragSt, "error", None)])
    /\ UNCHANGED <<ragScores, ragRaisedTexts>>
    /\ RagFrame

RagNext ==
    \/ RagStartRun \/ RagThink \/ RagPlan \/ RagRetrieve
    \/ RagRerank \/ RagGenerate \/ RagRespond

SpecRag == RagInit /\ [][RagNext]_vars

\* C17: every response the respond step returns, the one on the error path
\* included, ends with exactly one of the provenance footer (documents used:
\* the reranked documents with score >= 0.7 put in the context, at most 3;
\* and documents retrieved) or the no-relevant-documents notice.
C17_ResponseAlwaysHasFooter ==
    ragRespondOut.kind = "returned" =>
      LET used == Len(SubSeq(Get(ragSt, "reranked_docs", <<>>), 1,
                             IF Len(Get(ragSt, "reranked_docs", <<>>)) < ContextDocs
                             THEN Len(Get(ragSt, "reranked_docs", <<>>)) ELSE ContextDocs))
      IN  \/ /\ ragRespondOut.footer.kind = "provenance"
             /\ ragRespondOut.footer.used = used /\ used > 0
             /\ ragRespondOut.footer.retrieved = Get(ragSt, "retrieval_count", 0)
          \/ /\ ragRespondOut.footer.kind = "no_documents"
             /\ Get(ragSt, "context_used", 0) = 0

(***************************************************************************)
(* The graph lifecycle of one agent object: UNBUILT (self.graph is None)   *)
(* until _build_graph_async has assigned a compiled graph, READY after.    *)
(***************************************************************************)
MaxAgentCalls == 3

\* A guard that builds on every call.
NeedsBuild_always(graph) == TRUE

\* "if self.graph is None: await self._build_graph_async()"
NeedsBuild(graph) == graph = "None"

AgentInit ==
    /\ NeoIdle /\ RouterIdle /\ TruncIdle /\ MergeIdle /\ SessionIdle /\ LLMIdle /\ RagIdle /\ AsmIdle /\ StreamIdle /\ PoolIdle /\ ChatStreamIdle
    /\ agEnvironment \in Environments
    /\ agCompileAccepts \in BOOLEAN
    /\ agentObj = NewAgent
    /\ agPool = FALSE /\ agBuilds = 0 /\ agCalls = 0
    /\ agLast = [op |-> "none", built |-> FALSE, poolFailed |-> FALSE, outcome |-> "none"]

\* The common part of execute, execute_stream and get_session_history: build
\* the graph when there is none, then use it. poolOk: the connection pool
\* opens when it is asked for; the pool is kept once it is open.
AgentCall(op, poolOk, runOutcome) ==
    LET builds == NeedsBuild(agentObj.graph)
        pool == agPool \/ poolOk
        built == IF builds
                 THEN BuildGraphAsync([agentObj EXCEPT !.raised = FALSE], agEnvironment, pool,
                                      agCompileAccepts)
                 ELSE [agentObj EXCEPT !.raised = FALSE]
    IN  /\ agentObj' = built
        /\ agPool' = IF builds THEN pool ELSE agPool
        /\ agBuilds' = IF builds /\ built.graph # "None" THEN agBuilds + 1 ELSE agBuilds
        /\ agLast' = [op |-> op, built |-> builds, poolFailed |-> builds /\ ~pool,
                      outcome |-> IF built.raised THEN "build_raised" ELSE runOutcome]
        /\ agCalls' = agCalls + 1
        /\ UNCHANGED <<agEnvironment, agCompileAccepts>>

\* BaseAgent.execute: _execute_internal returns the result or raises again.
AgentExecute ==
    /\ agCalls < MaxAgentCalls
    /\ \E poolOk \in BOOLEAN, runOutcome \in {"returned", "raised"} :
          AgentCall("execute", poolOk, runOutcome)
    /\ AgentFrame

\* BaseAgent.execute_stream: the stream ends or its failure is raised.
AgentExecuteStream ==
    /\ agCalls < MaxAgentCalls
    /\ \E poolOk \in BOOLEAN, runOutcome \in {"returned", "raised"} :
          AgentCall("execute_stream", poolOk, runOutcome)
    /\ AgentFrame

\* BaseAgent.get_session_history: every failure after the build is answered
\* with an empty history.
AgentGetSessionHistory ==
    /\ agCalls < MaxAgentCalls
    /\ \E poolOk \in BOOLEAN : AgentCall("get_session_history", poolOk, "returned")
    /\ AgentFrame

AgentNext == AgentExecute \/ AgentExecuteStream \/ AgentGetSessionHistory

SpecAgent == AgentInit /\ [][AgentNext]_vars

\* C13: once self.graph is set, no later call builds, replaces or clears it.
C13_ReadyNeverRegresses ==
    [][agentObj.graph # "None" => (agentObj'.graph = agentObj.graph /\ agBuilds' = agBuilds)]_vars

\* C13 witness: several calls were made, one graph was built, and the last
\* call, which built nothing and failed in its execution, left it in place.
C13_Witness ==
    /\ agCalls = MaxAgentCalls /\ agBuilds = 1 /\ agentObj.graph # "None"
    /\ agLast.built = FALSE /\ agLast.outcome = "raised"

\* C14 (as claimed): after a first execute whose connection-pool acquisition
\* failed, a production agent is READY with a graph without checkpointer and
\* the execution went on; any other agent raised and is still UNBUILT.
C14_PoolFailureDegradesInProduction ==
    (agCalls = 1 /\ agLast.op = "execute" /\ agLast.poolFailed)
    => IF agEnvironment = "production"
       THEN agentObj.graph = "plain" /\ ~agentObj.checkpointer /\ agLast.outcome # "build_raised"
       ELSE agentObj.graph = "None" /\ agLast.outcome = "build_raised"


(***************************************************************************)
(* Message assembly: what BaseAgent.execute_stream and ChatAgent.execute   *)
(* put in state["messages"] before the graph runs. A langchain message is  *)
(* [type, content] with type "system", "human" or "ai".                    *)
(***************************************************************************)
MaxAsmHist == 2

AsmContents == {"a", "b"}

AsmTurns == [role : {"user", "assistant", "system"}, content : AsmContents]

AsmHistories == UNION {[1..n -> AsmTurns] : n \in 0..MaxAsmHist}

\* the query argument
AsmQuery == "q"

\* One pass of "for msg in history": user and assistant turns become messages,
\* any other role is passed over.
RECURSIVE ConvertHistory(_)
ConvertHistory(hist) ==
    IF hist = <<>> THEN <<>>
    ELSE LET msg == Head(hist)
             converted ==
                 IF msg.role = "user" THEN <<[type |-> "human", content |-> msg.content]>>
                 ELSE IF msg.role = "assistant"
                 THEN <<[type |-> "ai", content |-> msg.content]>>
                 ELSE <<>>
         IN  converted \o ConvertHistory(Tail(hist))

\* n passes appended one after the other
RECURSIVE Passes(_, _)
Passes(n, hist) == IF n = 0 THEN <<>> ELSE ConvertHistory(hist) \o Passes(n - 1, hist)

\* "if system_prompt: messages.append(SystemMessage(content=system_prompt))"
SystemPart(system_prompt) ==
    IF TruthyStr(system_prompt)
    THEN <<[type |-> "system", content |-> system_prompt]>> ELSE <<>>

\* BaseAgent.execute_stream: "for msg in (history or []): for msg in history:",
\* the inner loop runs once for every element of the history
execute_stream_messages(system_prompt, hist, query) ==
    SystemPart(system_prompt) \o Passes(Len(hist), hist)
        \o <<[type |-> "human", content |-> query]>>

\* ChatAgent.execute: "if history: for msg in history:"
chat_execute_messages(system_prompt, hist, query) ==
    SystemPart(system_prompt) \o ConvertHistory(hist)
        \o <<[type |-> "human", content |-> query]>>

AsmInit ==
    /\ NeoIdle /\ RouterIdle /\ TruncIdle /\ MergeIdle /\ SessionIdle /\ LLMIdle /\ RagIdle /\ AgentIdle /\ StreamIdle /\ PoolIdle /\ ChatStreamIdle
    /\ asmSystemPrompt \in {None, "", "S"}
    /\ asmHistory \in AsmHistories
    /\ asmCalled = {}
    /\ streamMessages = <<>> /\ executeMessages = <<>>

\* execute_stream(query, history=..., system_prompt=...) builds its state
AssembleStream ==
    /\ "execute_stream" \notin asmCalled
    /\ streamMessages' = execute_stream_messages(asmSystemPrompt, asmHistory, AsmQuery)
    /\ asmCalled' = asmCalled \cup {"execute_stream"}
    /\ UNCHANGED <<asmSystemPrompt, asmHistory, executeMessages>>
    /\ AsmFrame

\* ChatAgent.execute(query, history=..., system_prompt=...) builds its state
AssembleExecute ==
    /\ "execute" \notin asmCalled
    /\ executeMessages' = chat_execute_messages(asmSystemPrompt, asmHistory, AsmQuery)
    /\ asmCalled' = asmCalled \cup {"execute"}
    /\ UNCHANGED <<asmSystemPrompt, asmHistory, streamMessages>>
    /\ AsmFrame

AsmNext == AssembleStream \/ AssembleExecute

SpecAssemble == AsmInit /\ [][AsmNext]_vars

\* C18: execute_stream hands the graph [system prompt if given], then the
\* history messages in order, each exactly once, then the new user message:
\* the list the non-streaming execution builds, of length at most
\* len(history) + 2.
C18_StreamAssemblyMatchesExecute ==
    "execute_stream" \in asmCalled =>
      LET turns == SelectSeq(asmHistory, LAMBDA t : t.role \in {"user", "assistant"})
          given == asmSystemPrompt \notin {None, ""}
          off == IF given THEN 1 ELSE 0
      IN  /\ Len(streamMessages) <= Len(asmHistory) + 2
          /\ Len(streamMessages) = off + Len(turns) + 1
          /\ given => streamMessages[1] = [type |-> "system", content |-> asmSystemPrompt]
          /\ \A i \in 1..Len(turns) :
                /\ i + off <= Len(streamMessages)
                /\ streamMessages[i + off].content = turns[i].content
                /\ streamMessages[i + off].type
                      = (IF turns[i].role = "user" THEN "human" ELSE "ai")
          /\ streamMessages[Len(streamMessages)] = [type |-> "human", content |-> AsmQuery]
          /\ "execute" \in asmCalled => streamMessages = executeMessages


(***************************************************************************)
(* Streaming: the loop of BaseAgent.execute_stream over graph.astream with *)
(* stream_mode="messages". An event is [shape, content]: shape "pair" is a *)
(* (message, metadata) tuple, "bare" a message alone, "triple" a tuple     *)
(* that does not unpack into two names; content is the message's content,  *)
(* "" when empty, NoContent when the message has no content attribute.     *)
(***************************************************************************)
MaxEvents == 3

NoContent == "<no content>"

StreamEvents ==
    {[shape |-> "pair", content |-> "x"], [shape |-> "pair", content |-> "y"],
     [shape |-> "pair", content |-> ""], [shape |-> "bare", content |-> "x"],
     [shape |-> "triple", content |-> "x"], [shape |-> "pair", content |-> NoContent]}

EventSeqs == UNION {[1..n -> StreamEvents] : n \in 0..MaxEvents}

\* A loop body that yields the content of every message, empty or not.
HandleEvent_yieldsEmpty(event) ==
    IF event.shape = "triple" THEN <<>>
    ELSE IF event.content # NoContent THEN <<event.content>> ELSE <<>>

\* The body of the loop for one event: the chunks it yields (one or none).
\* "message, _ = event" raises ValueError on a tuple of another length; the
\* inner except logs it and continues with the next event.
HandleEvent(event) ==
    IF event.shape = "triple" THEN <<>>
    ELSE IF event.content # NoContent /\ event.content # "" THEN <<event.content>>
    ELSE <<>>

StreamInit ==
    /\ NeoIdle /\ RouterIdle /\ TruncIdle /\ MergeIdle /\ SessionIdle /\ LLMIdle /\ RagIdle /\ AgentIdle /\ AsmIdle /\ PoolIdle /\ ChatStreamIdle
    /\ srcEvents \in EventSeqs
    /\ srcFailsAt \in 0..(MaxEvents + 1)
    /\ srcFailsAt <= Len(srcEvents) + 1
    /\ consumed = 0 /\ yielded = <<>> /\ strPhase = "streaming"

\* the stream emits its next event and the loop body handles it
StreamEvent ==
    /\ strPhase = "streaming"
    /\ consumed < Len(srcEvents) /\ srcFailsAt # consumed + 1
    /\ consumed' = consumed + 1
    /\ yielded' = yielded \o HandleEvent(srcEvents[consumed + 1])
    /\ UNCHANGED <<srcEvents, srcFailsAt, strPhase>>
    /\ StreamFrame

\* the stream is exhausted: the loop ends and the generator returns
StreamCompleted ==
    /\ strPhase = "streaming"
    /\ consumed = Len(srcEvents) /\ srcFailsAt # consumed + 1
    /\ strPhase' = "completed"
    /\ UNCHANGED <<srcEvents, srcFailsAt, consumed, yielded>>
    /\ StreamFrame

\* graph.astream raises: the outer except logs agent_stream_failed and re-raises
StreamSourceFails ==
    /\ strPhase = "streaming"
    /\ srcFailsAt = consumed + 1
    /\ strPhase' = "raised"
    /\ UNCHANGED <<srcEvents, srcFailsAt, consumed, yielded>>
    /\ StreamFrame

StreamNext == StreamEvent \/ StreamCompleted \/ StreamSourceFails

SpecStream == StreamInit /\ [][StreamNext]_vars

\* The contents a consumer is owed for a sequence of events: the non-empty
\* contents of the events that can be read, in order.
RECURSIVE OwedChunks(_)
OwedChunks(events) ==
    IF events = <<>> THEN <<>>
    ELSE LET e == Head(events)
             readable == e.shape \in {"pair", "bare"} /\ e.content \notin {"", NoContent}
         IN  (IF readable THEN <<e.content>> ELSE <<>>) \o OwedChunks(Tail(events))

\* C19: the chunks yielded are exactly the non-empty contents of the events
\* emitted, in emission order, none reordered or repeated; an event whose
\* handling fails is the only one skipped; the stream ends when the source is
\* exhausted; a failure of the source is raised after the chunks already yielded.
C19_ChunksFollowEvents ==
    /\ strPhase \in {"streaming", "raised"} =>
          yielded = OwedChunks(SubSeq(srcEvents, 1, consumed))
    /\ strPhase = "completed" =>
          /\ consumed = Len(srcEvents)
          /\ yielded = OwedChunks(srcEvents)
    /\ strPhase = "raised" =>
          /\ srcFailsAt = consumed + 1
          /\ yielded = OwedChunks(SubSeq(srcEvents, 1, srcFailsAt - 1))

\* C19 witness: an unreadable event was skipped between two chunks, and the
\* source raised after the two chunks were yielded.
C19_Witness ==
    /\ strPhase = "raised" /\ srcFailsAt = 4
    /\ srcEvents = <<[shape |-> "pair", content |-> "x"],
                     [shape |-> "triple", content |-> "x"],
                     [shape |-> "pair", content |-> "y"]>>
    /\ yielded = <<"x", "y">>


(***************************************************************************)
(* Concurrent first executions on one agent object. The executions are     *)
(* asyncio tasks on one event loop: a task runs alone from one await to    *)
(* the next, and another task may run while it is suspended in             *)
(* "await self._connection_pool.open()" or "await self._checkpointer       *)
(* .setup()". Each action below is the code between two awaits.            *)
(***************************************************************************)
MaxTasks == 2

Tasks == 1..MaxTasks

PoolInit ==
    /\ NeoIdle /\ RouterIdle /\ TruncIdle /\ MergeIdle /\ SessionIdle /\ LLMIdle /\ RagIdle /\ AgentIdle /\ AsmIdle /\ StreamIdle /\ ChatStreamIdle
    /\ plEnvironment \in {"development", "production"}
    /\ plCompileAccepts \in BOOLEAN
    /\ plPool = "None" /\ plPoolsCreated = 0 /\ plGraph = FALSE
    /\ plPc = [t \in Tasks |-> "start"]
    /\ plAttached = [t \in Tasks |-> "none"]

\* "self.graph = graph_builder.compile(checkpointer=...)" and, when it raises,
\* the except branch of _build_graph_async: production compiles again without
\* checkpointer, any other environment raises. [graph set, where the task goes]
CompileStep(accepts) ==
    IF accepts THEN [graph |-> TRUE, pc |-> "run"]
    ELSE [graph |-> FALSE, pc |-> "raised"]

\* A task enters execute: "if self.graph is None" sends it to
\* _build_graph_async and _get_connection_pool. With no pool yet it constructs
\* one (open=False) and suspends in open(); with a pool object already there
\* it gets that object back at once and builds AsyncPostgresSaver(conn_pool)
\* on it, then suspends in setup().
TaskStart(t) ==
    /\ plPc[t] = "start"
    /\ IF plGraph
       THEN /\ plPc' = [plPc EXCEPT ![t] = "run"]
            /\ UNCHANGED <<plPool, plPoolsCreated, plAttached>>
       ELSE IF plPool = "None"
       THEN /\ plPool' = "created"
            /\ plPoolsCreated' = plPoolsCreated + 1
            /\ plPc' = [plPc EXCEPT ![t] = "opening"]
            /\ UNCHANGED plAttached
       ELSE /\ plAttached' = [plAttached EXCEPT ![t] = plPool]
            /\ plPc' = [plPc EXCEPT ![t] = "setup"]
            /\ UNCHANGED <<plPool, plPoolsCreated>>
    /\ UNCHANGED <<plEnvironment, plCompileAccepts, plGraph>>
    /\ PoolFrame

\* "await self._connection_pool.open()" returns or raises in the task that
\* constructed the pool. On a failure self._connection_pool keeps the object;
\* production goes on without checkpointer, any other environment raises.
PoolOpenReturns(t) ==
    /\ plPc[t] = "opening"
    /\ \E opened \in BOOLEAN :
          IF opened
          THEN /\ plPool' = "open"
               /\ plAttached' = [plAttached EXCEPT ![t] = "open"]
               /\ plPc' = [plPc EXCEPT ![t] = "setup"]
               /\ UNCHANGED plGraph
          ELSE /\ UNCHANGED <<plPool, plAttached>>
               /\ IF plEnvironment = "production"
                  THEN /\ plGraph' = (plGraph \/ CompileStep(plCompileAccepts).graph)
                       /\ plPc' = [plPc EXCEPT ![t] =
                                      CompileStep(plCompileAccepts).pc]
                  ELSE /\ plPc' = [plPc EXCEPT ![t] = "raised"]
                       /\ UNCHANGED plGraph
    /\ UNCHANGED <<plEnvironment, plCompileAccepts, plPoolsCreated>>
    /\ PoolFrame

\* "await self._checkpointer.setup()" returns or raises, then the graph is
\* compiled and assigned to self.graph.
SetupReturns(t) ==
    /\ plPc[t] = "setup"
    /\ \E setupOk \in BOOLEAN :
          IF setupOk \/ plEnvironment = "production"
          THEN /\ plGraph' = (plGraph \/ CompileStep(plCompileAccepts).graph)
               /\ plPc' = [plPc EXCEPT ![t] = CompileStep(plCompileAccepts).pc]
          ELSE /\ plPc' = [plPc EXCEPT ![t] = "raised"]
               /\ UNCHANGED plGraph
    /\ UNCHANGED <<plEnvironment, plCompileAccepts, plPool, plPoolsCreated, plAttached>>
    /\ PoolFrame

PoolNext == \E t \in Tasks : TaskStart(t) \/ PoolOpenReturns(t) \/ SetupReturns(t)

SpecPool == PoolInit /\ [][PoolNext]_vars

\* C21: under any interleaving of concurrent first executions, exactly one
\* connection pool is created for the agent object, every execution shares
\* it, and no execution builds its checkpointer on the pool before the pool
\* has finished opening.
C21_OnePoolOpenBeforeAttach ==
    /\ plPoolsCreated <= 1
    /\ \A t \in DOMAIN plAttached : plAttached[t] \in {"none", "open"}

(***************************************************************************)
(* Streaming chat turn of the chatbot service: ChatbotService.chat_stream, *)
(* the message repository it reads and writes, and the list of messages    *)
(* BaseAgent.execute_stream builds from what it is handed.  Text is a      *)
(* sequence of characters; an Optional list is <<>> for None and <<l>>     *)
(* for the list l.                                                         *)
(***************************************************************************)

\* "limit=20" of the call in _build_history
HistoryLimit == 20

\* largest number of messages the session holds before the turn
MaxRows == 21

\* largest number of tokens the agent streams in a turn
MaxChunks == 2

\* the tokens an agent streams: message contents that are not empty
ChatTokens == {<<"x">>, <<"y">>}

\* request.query
ChatQuery == <<"q">>

\* int(session_id): the texts that parse, and what they parse to
ParsesAsInt(text) == text \in {"1", "7"}
IntOf(text) == IF text = "1" THEN 1 ELSE 7

\* the session that exists before the turn, and the key the next one gets
ExistingSession == IntOf("1")
NewSession == ExistingSession + 1

\* The messages table before the turn: n turns of the existing session in
\* creation order, user and assistant alternating, every content different.
PriorMessages(n) ==
    [i \in 1..n |-> [id |-> i, session_id |-> ExistingSession,
                      role |-> IF i % 2 = 1 THEN "user" ELSE "assistant",
                      content |-> <<"m", ToString(i)>>]]

\* MessageRepository.create: the row gets the next key and is the newest
create(table, session_id, role, content) ==
    Append(table, [id |-> Len(table) + 1, session_id |-> session_id,
                   role |-> role, content |-> content])

\* MessageRepository.get_by_session_id: where session_id, order_by created_at
\* (ascending), offset skip, limit
get_by_session_id(table, session_id, skip, limit) ==
    LET OfSession(row) == row.session_id = session_id
        rows == SelectSeq(table, OfSession)
        last == IF skip + limit < Len(rows) THEN skip + limit ELSE Len(rows)
    IN  SubSeq(rows, skip + 1, last)

\* ChatbotService._build_history: the provided history when it is not empty,
\* else the role and content of what the repository returns
build_history(table, session_id, provided_history) ==
    IF provided_history # <<>> /\ provided_history[1] # <<>>
    THEN provided_history[1]
    ELSE LET rows == get_by_session_id(table, session_id, 0, HistoryLimit)
         IN  [i \in 1..Len(rows) |-> [role |-> rows[i].role, content |-> rows[i].content]]

\* ChatbotService._get_or_create_session: the session of a key that parses and
\* exists, else a new session
get_or_create_session(sessions, session_id) ==
    IF session_id # None /\ ParsesAsInt(session_id) /\ IntOf(session_id) \in sessions
    THEN IntOf(session_id)
    ELSE NewSession

\* full_response that keeps the last token only
AddToken_lastOnly(full_response, token) == token

\* "full_response += token"
AddToken(full_response, token) == full_response \o token

\* StreamChunk(type=..., content=...).model_dump()
StreamChunk(type, content) == [type |-> type, content |-> content]

\* the calls of the prelude that can raise, in the order they are made
PreludeCalls == <<"session", "save_user", "history", "routing", "build_graph">>

PreludeFailures == {"none"} \cup {PreludeCalls[i] : i \in DOMAIN PreludeCalls}

\* the call returned: nothing raised, or a later call did
Returned(call, fail) ==
    \/ fail = "none"
    \/ \E i, j \in DOMAIN PreludeCalls : PreludeCalls[i] = call /\ PreludeCalls[j] = fail /\ i < j

ChatStreamInit ==
    /\ NeoIdle /\ RouterIdle /\ TruncIdle /\ MergeIdle /\ SessionIdle /\ LLMIdle /\ RagIdle /\ AgentIdle /\ AsmIdle /\ StreamIdle /\ PoolIdle
    /\ \E n \in 0..MaxRows : csMessages = PriorMessages(n) /\ csPrior = n
    /\ csSessions = {ExistingSession}
    /\ csRequest \in [session_id : {None, "x", "7", "1"},
                      history : {<<>>, << <<>> >>, << <<[role |-> "user", content |-> <<"h">>]>> >>},
                      query : {ChatQuery}]
    /\ csPc = "requested" /\ csSession = 0 /\ csFailedAt = "none"
    /\ csHistory = <<>> /\ csHanded = <<>> /\ csFull = <<>> /\ csEmitted = <<>>

\* chat_stream from its first line to the first token or the first exception:
\* session, user message, history, routing, and the first step of
\* execute_stream, which builds the graph and the message list.
ChatStreamStart ==
    /\ csPc = "requested"
    /\ \E fail \in PreludeFailures :
        LET sid == get_or_create_session(csSessions, csRequest.session_id)
            saved == create(csMessages, sid, "user", csRequest.query)
            hist == build_history(saved, sid, csRequest.history)
            reached(call) == Returned(call, fail)
        IN  /\ csFailedAt' = fail
            /\ csSession' = IF reached("session") THEN sid ELSE 0
            /\ csSessions' = IF reached("session") THEN csSessions \cup {sid} ELSE csSessions
            /\ csMessages' = IF reached("save_user") THEN saved ELSE csMessages
            /\ csHistory' = IF reached("history") THEN hist ELSE <<>>
            /\ csHanded' = IF fail = "none"
                            THEN execute_stream_messages(None, hist, csRequest.query)
                            ELSE <<>>
            /\ csEmitted' = IF fail = "none" THEN csEmitted
                             ELSE Append(csEmitted, StreamChunk("error", <<"e">>))
            /\ csPc' = IF fail = "none" THEN "streaming" ELSE "ended"
    /\ UNCHANGED <<csRequest, csPrior, csFull>>
    /\ ChatStreamFrame

\* the agent yields a token: it is added to full_response and emitted
ChatStreamToken ==
    /\ csPc = "streaming"
    /\ Len(csEmitted) < MaxChunks
    /\ \E token \in ChatTokens :
        /\ csFull' = AddToken(csFull, token)
        /\ csEmitted' = Append(csEmitted, StreamChunk("chunk", token))
    /\ UNCHANGED <<csMessages, csSessions, csRequest, csPc, csSession, csPrior, csFailedAt,
                   csHistory, csHanded>>
    /\ ChatStreamFrame

\* the agent's stream raises: the except block emits the error item
ChatStreamAgentFails ==
    /\ csPc = "streaming"
    /\ csFailedAt' = "agent"
    /\ csEmitted' = Append(csEmitted, StreamChunk("error", <<"e">>))
    /\ csPc' = "ended"
    /\ UNCHANGED <<csMessages, csSessions, csRequest, csSession, csPrior,
                   csHistory, csHanded, csFull>>
    /\ ChatStreamFrame

\* the agent's stream ends: _save_assistant_message, which stores the message
\* or raises
ChatStreamSave ==
    /\ csPc = "streaming"
    /\ \E stored \in BOOLEAN :
        IF stored
        THEN /\ csMessages' = create(csMessages, csSession, "assistant", csFull)
             /\ csPc' = "saved"
             /\ UNCHANGED <<csEmitted, csFailedAt>>
        ELSE /\ csFailedAt' = "save_assistant"
             /\ csEmitted' = Append(csEmitted, StreamChunk("error", <<"e">>))
             /\ csPc' = "ended"
             /\ UNCHANGED csMessages
    /\ UNCHANGED <<csSessions, csRequest, csSession, csPrior, csHistory, csHanded, csFull>>
    /\ ChatStreamFrame

\* the last yield of the try block
ChatStreamDone ==
    /\ csPc = "saved"
    /\ csEmitted' = Append(csEmitted, StreamChunk("done", <<>>))
    /\ csPc' = "ended"
    /\ UNCHANGED <<csMessages, csSessions, csRequest, csSession, csPrior, csFailedAt,
                   csHistory, csHanded, csFull>>
    /\ ChatStreamFrame

ChatStreamNext ==
    ChatStreamStart \/ ChatStreamToken \/ ChatStreamAgentFails \/ ChatStreamSave \/ ChatStreamDone

SpecChatStream == ChatStreamInit /\ [][ChatStreamNext]_vars

\* the consumer reads the generator to its end
SpecChatStreamLive == ChatStreamInit /\ [][ChatStreamNext]_vars /\ WF_vars(ChatStreamNext)

\* the chunk items emitted so far, and their contents joined in order
ChunkItems == SelectSeq(csEmitted, LAMBDA item : item.type = "chunk")

RECURSIVE JoinContents(_)
JoinContents(items) ==
    IF items = <<>> THEN <<>> ELSE Head(items).content \o JoinContents(Tail(items))

\* the messages this turn has stored, by role
StoredThisTurn(role) ==
    SelectSeq(csMessages, LAMBDA row : row.id > csPrior /\ row.role = role)

\* a terminal item of the given type was emitted
Emitted(type) == \E i \in DOMAIN csEmitted : csEmitted[i].type = type

\* what every run emits and stores, whatever the place of the failure
C28_ItemsAndAssistantMessage ==
    /\ \A i \in 1..(Len(csEmitted) - 1) : csEmitted[i].type = "chunk"
    /\ csPc # "ended" => \A i \in DOMAIN csEmitted : csEmitted[i].type = "chunk"
    /\ csPc = "ended" =>
            /\ csEmitted # <<>>
            /\ csEmitted[Len(csEmitted)].type \in {"done", "error"}
    /\ Len(StoredThisTurn("assistant")) <= 1
    /\ StoredThisTurn("assistant") # <<>> <=> (csPc = "saved" \/ Emitted("done"))
    /\ StoredThisTurn("assistant") # <<>> =>
            StoredThisTurn("assistant")[1].content = JoinContents(ChunkItems)
    /\ Emitted("error") => StoredThisTurn("assistant") = <<>>

\* the user message of the turn is stored
UserMessageStored ==
    /\ Len(StoredThisTurn("user")) = 1
    /\ StoredThisTurn("user")[1].content = csRequest.query

\* C28 as stated: every chat_stream run that is consumed to its end emits
\* chunk items followed by exactly one terminal item, done or error; the
\* assistant message is stored exactly when done is emitted, before it, with
\* the joined chunk contents; on error no assistant message is stored although
\* the user message already is.
C28_StreamItemsAndPersistence ==
    /\ [](C28_ItemsAndAssistantMessage /\ (Emitted("error") => UserMessageStored))
    /\ <>(csPc = "ended")

\* C28 amended: as above, and on error the user message is stored exactly when
\* the failure came after _save_user_message returned.
C28_StreamItemsAndPersistenceAfterSave ==
    /\ [](/\ C28_ItemsAndAssistantMessage
          /\ Emitted("error") =>
                (UserMessageStored <=> csFailedAt \notin {"session", "save_user"})
          /\ Emitted("done") => UserMessageStored)
    /\ <>(csPc = "ended")

\* C28 witness: a run of two chunks that ended with done, the assistant message
\* stored with both contents joined.
C28_Witness ==
    /\ csPc = "ended" /\ Len(csEmitted) = 3 /\ csEmitted[3].type = "done"
    /\ csEmitted[1].content = <<"x">> /\ csEmitted[2].content = <<"y">>
    /\ StoredThisTurn("assistant") # <<>>
    /\ StoredThisTurn("assistant")[1].content = <<"x", "y">>

\* the request supplies no history: None or an empty list
NoHistorySupplied == csRequest.history = <<>> \/ csRequest.history[1] = <<>>

\* the places of the current query in the list handed to the agent
QueryPlaces ==
    {i \in DOMAIN csHanded : csHanded[i] = [type |-> "human", content |-> csRequest.query]}

\* C29: in a chat_stream turn whose request supplies no history, the message
\* list handed to the agent contains the current user query exactly once, as
\* its last message.
C29_QueryHandedOnce ==
    (NoHistorySupplied /\ csHanded # <<>>) =>
        QueryPlaces = {Len(csHanded)}

\* the messages of the turn's session when the history was read, in creation
\* order: those before the turn and the user message just stored
SessionMessagesAtLoad ==
    SelectSeq(csMessages, LAMBDA row : row.session_id = csSession /\ row.id <= csPrior + 1)

\* the last n elements of a sequence (all of them when it is shorter)
LastOf(rows, n) ==
    IF Len(rows) <= n THEN rows ELSE SubSeq(rows, Len(rows) - n + 1, Len(rows))

\* C30: the history _build_history loads when the request supplies none is the
\* most recent messages of the session, at most 20, in creation order; the
\* oldest ones are the ones left out.
C30_HistoryIsMostRecent ==
    (NoHistorySupplied /\ csHistory # <<>>) =>
        LET recent == LastOf(SessionMessagesAtLoad, HistoryLimit)
        IN  csHistory = [i \in 1..Len(recent) |->
                            [role |-> recent[i].role, content |-> recent[i].content]]

=============================================================================
